---- MODULE Spec2Model ----
(***************************************************************************)
(* Model of the news application (src/news): role-based users, the article *)
(* approval workflow of views.py, the pre_save/post_save signal handlers   *)
(* of signals.py with their email and social fan-out, and the read-only    *)
(* REST article endpoints of api_views.py.                                 *)
(*                                                                         *)
(* The relational store is modelled by functions over primary keys.  A     *)
(* NULL column and Python's None are the value None.  timezone.now() is    *)
(* the variable now.  Every HTTP request is one action; the last request   *)
(* is kept in request, its response in response, and what the post_save    *)
(* handler did for it in fanout.                                           *)
(***************************************************************************)
EXTENDS Integers, Sequences, FiniteSets, TLC

\* ------------------------------------------------------------------ bounds
MaxArticles == 2
MaxTime == 2
MaxFanout == 2

\* ------------------------------------------------------------ the universe
None == 0

\* Primary keys of the users and publishers that exist (fixtures in the
\* shape of tests.py setUp: readers, a journalist, an editor, a publisher).
Users == 1 .. 4
Publishers == {1}
ArticleIds == 1 .. MaxArticles
Times == 1 .. MaxTime

ROLE_CHOICES == {"reader", "editor", "journalist"}

\* CustomUser.get_role_display(): the label of the role in ROLE_CHOICES.
get_role_display(r) ==
    CASE r = "reader" -> "Reader"
      [] r = "editor" -> "Editor"
      [] r = "journalist" -> "Journalist"

ArticlePerms ==
    {"news.add_article", "news.change_article", "news.delete_article",
     "news.view_article", "news.approve_article"}

NewsletterPerms ==
    {"news.add_newsletter", "news.change_newsletter",
     "news.delete_newsletter", "news.view_newsletter"}

\* CustomUser.set_group_permissions: the permissions a role's group gets.
set_group_permissions(r) ==
    CASE r = "reader" -> {"news.view_article", "news.view_newsletter"}
      [] r = "editor" ->
            {"news.view_article", "news.change_article", "news.delete_article",
             "news.view_newsletter", "news.change_newsletter",
             "news.delete_newsletter"}
      [] r = "journalist" -> ArticlePerms \cup NewsletterPerms
      [] OTHER -> {}

\* The permissions carried by the group with a given name.
group_permissions(g) ==
    UNION {set_group_permissions(r) : r \in {x \in ROLE_CHOICES : get_role_display(x) = g}}

\* ------------------------------------------------------------------- state
VARIABLES
    role,                    \* CustomUser.role
    email,                   \* CustomUser.email is non-empty
    groups,                  \* CustomUser.groups (names)
    subscribed_publishers,   \* CustomUser.subscribed_publishers
    subscribed_journalists,  \* CustomUser.subscribed_journalists
    affiliated_publishers,   \* CustomUser.affiliated_publishers
    pks,                     \* primary keys of the Article rows
    next_pk,                 \* next primary key of the Article table
    articles,                \* the Article rows
    now,                     \* timezone.now()
    request,                 \* the last request
    response,                \* the response to it
    fanout,                  \* what the last request's post_save handler did
    fanout_count,            \* per article: runs of the fan-out so far
    publisher_name,          \* Publisher.name of the Publisher rows
    next_publisher_pk,       \* next primary key of the Publisher table
    next_user_pk,            \* next primary key of the CustomUser table
    twitter,                 \* post_article_to_twitter building its text
    inflight                 \* per server worker: the approve request it runs

uservars == <<role, email, groups, affiliated_publishers, next_user_pk>>
pubvars == <<publisher_name, next_publisher_pk>>
subvars == <<subscribed_publishers, subscribed_journalists>>
artvars == <<pks, next_pk, articles>>
\* The stored CustomUser rows.
user_pks == DOMAIN role
\* The stored Publisher rows.
publisher_pks == DOMAIN publisher_name

vars == <<role, email, groups, subscribed_publishers, subscribed_journalists,
          affiliated_publishers, pks, next_pk, articles, now, request,
          response, fanout, fanout_count, publisher_name, next_publisher_pk,
          next_user_pk, twitter, inflight>>
procvars == <<twitter, inflight>>

\* An Article row with the defaults of models.py.
NewArticle(author, publisher, is_approved) ==
    [author |-> author, publisher |-> publisher, is_approved |-> is_approved,
     approved_by |-> None, approved_at |-> None, published_at |-> None]

NoArticle == NewArticle(None, None, FALSE)

\* The post_save handler did not run its approval branch.  (allowed_hosts
\* and bearer_token are the settings in force when the branch runs:
\* ALLOWED_HOSTS is non-empty, TWITTER_BEARER_TOKEN is set.)
NoFanout ==
    [calls |-> 0, emails |-> [u \in user_pks |-> 0], mail_attempts |-> 0,
     mail_result |-> "none", tweet_attempts |-> 0, tweet_result |-> "none",
     raised |-> FALSE, allowed_hosts |-> TRUE, bearer_token |-> FALSE]

\* Requests: the view, the logged-in user (None outside a session), the
\* primary key or query parameter, the method and the submitted fields.
Req(view, user, pk, method, posted, publisher) ==
    [view |-> view, user |-> user, pk |-> pk, method |-> method,
     posted |-> posted, publisher |-> publisher]
NoRequest == Req("", None, None, "", FALSE, None)

\* Responses: a status, the redirect target or template, the listed rows.
Resp(status, to, data) == [status |-> status, to |-> to, data |-> data]
NoResponse == Resp(0, "", <<>>)

\* ----------------------------------------------------------------- helpers
RECURSIVE SetToSeq(_)
\* The elements of a finite set of integers in ascending order.
SetToSeq(S) ==
    IF S = {} THEN <<>>
    ELSE LET m == CHOOSE x \in S : \A y \in S : x <= y
         IN <<m>> \o SetToSeq(S \ {m})

\* The rows of a listed sequence.
Range(data) == {data[i] : i \in DOMAIN data}

\* User.has_perm through the user's groups.
has_perm(u, perm) == \E g \in groups[u] : perm \in group_permissions(g)

\* What a request finds in its environment: settings.ALLOWED_HOSTS is
\* non-empty, settings.TWITTER_BEARER_TOKEN is set, send_mass_mail succeeds,
\* and the outcome of requests.post (a 201 status, another status, or an
\* exception).
\* (The outcome of a call that is not made is left at its first value.)
Envs ==
    {e \in [hosts : BOOLEAN, token : BOOLEAN, mail_ok : BOOLEAN,
            post : {"201", "other", "exception"}] :
        /\ (~e.token \/ ~e.hosts) => e.post = "201"
        /\ ~e.hosts => e.mail_ok}

\* ------------------------------------------------------------- signals.py
\* A variant of track_approval_status that compares the instance with
\* itself instead of with the stored row.
track_approval_status_same_instance(pk, inst) ==
    IF pk # None
    THEN IF pk \in pks
         THEN (~inst.is_approved) /\ inst.is_approved
         ELSE FALSE
    ELSE FALSE

\* A level-triggered variant of track_approval_status: it looks at the new
\* value alone.
track_approval_status_level(pk, inst) ==
    IF pk # None
    THEN IF pk \in pks
         THEN inst.is_approved
         ELSE FALSE
    ELSE FALSE

\* pre_save: the value of instance._approval_changed for a save of the
\* instance inst with primary key pk (None for an unsaved instance).
track_approval_status(pk, inst) ==
    IF pk # None
    THEN IF pk \in pks
         THEN (~articles[pk].is_approved) /\ inst.is_approved
         ELSE FALSE
    ELSE FALSE

\* A variant of the query without the role filter.
publisher_subscribers_any_role(article) ==
    IF article.publisher # None
    THEN {u \in user_pks : article.publisher \in subscribed_publishers[u]}
    ELSE {}

\* CustomUser.objects.filter(role='reader', subscribed_publishers=publisher)
publisher_subscribers(article) ==
    IF article.publisher # None
    THEN {u \in user_pks : role[u] = "reader"
                        /\ article.publisher \in subscribed_publishers[u]}
    ELSE {}

\* CustomUser.objects.filter(role='reader', subscribed_journalists=author)
journalist_subscribers(article) ==
    {u \in user_pks : role[u] = "reader"
                   /\ article.author \in subscribed_journalists[u]}

\* A variant that appends the two query results instead of uniting them:
\* the number of times each user is collected.
subscribers_appended(article) ==
    [u \in user_pks |->
        (IF u \in publisher_subscribers(article) THEN 1 ELSE 0)
        + (IF u \in journalist_subscribers(article) THEN 1 ELSE 0)]

\* The set subscribers of send_article_to_subscribers after both update()
\* calls, as the number of times each user is in it.
subscribers(article) ==
    [u \in user_pks |->
        IF u \in publisher_subscribers(article) \cup journalist_subscribers(article)
        THEN 1 ELSE 0]

\* The list emails: the number of messages addressed to each user.
emails_of(article) ==
    [u \in user_pks |-> IF email[u] THEN subscribers(article)[u] ELSE 0]

\* send_article_to_subscribers: the messages built, the attempts on the
\* mail channel and how the function ends: "none" (it returns without a
\* send), "raised" (indexing an empty ALLOWED_HOSTS, outside the try block,
\* raises IndexError), "sent", or "failed" (send_mass_mail raised and the
\* exception was caught).
send_article_to_subscribers(article, env) ==
    IF \A u \in user_pks : subscribers(article)[u] = 0
    THEN [emails |-> [u \in user_pks |-> 0], attempts |-> 0, result |-> "none"]
    ELSE IF ~env.hosts
    THEN [emails |-> [u \in user_pks |-> 0], attempts |-> 0, result |-> "raised"]
    ELSE IF \A u \in user_pks : emails_of(article)[u] = 0
    THEN [emails |-> emails_of(article), attempts |-> 0, result |-> "none"]
    ELSE [emails |-> emails_of(article), attempts |-> 1,
          result |-> IF env.mail_ok THEN "sent" ELSE "failed"]

\* post_article_to_twitter: the attempts on the social channel and how the
\* function ends: "skipped" (no credential), "raised" (IndexError on an
\* empty ALLOWED_HOSTS, outside the try block), "posted" (status 201),
\* "rejected" (another status), or "error" (requests.post raised and the
\* exception was caught).
post_article_to_twitter(article, env) ==
    IF ~env.token
    THEN [attempts |-> 0, result |-> "skipped"]
    ELSE IF ~env.hosts
    THEN [attempts |-> 0, result |-> "raised"]
    ELSE [attempts |-> 1,
          result |-> CASE env.post = "201" -> "posted"
                       [] env.post = "other" -> "rejected"
                       [] OTHER -> "error"]

\* ---------------------------------------- the text of the social post
\* A string is a sequence of characters; a character is written as the
\* part of the text it comes from and its position in that part.
Str(part, n) == [i \in 1 .. n |-> <<part, i>>]

\* Python's s[:k]: the first k characters, or all but the last -k when k is
\* negative.
Slice(s, k) ==
    IF k >= 0
    THEN SubSeq(s, 1, IF k < Len(s) THEN k ELSE Len(s))
    ELSE SubSeq(s, 1, IF Len(s) + k > 0 THEN Len(s) + k ELSE 0)

TweetLimit == 280
UrlReserve == 30
EllipsisLen == 3
Ellipsis == Str("...", EllipsisLen)

\* The characters of the f-string before the title, "<emoji> New Article: "
\* as the source file holds it.
HeaderLen == 18
\* f"... New Article: {article.title}\n\n" without the two newlines.
title_line(title) == Str("header", HeaderLen) \o title

\* "Read more: "
ReadMoreLen == 11

\* A variant of the final cut that keeps TweetLimit characters before the
\* ellipsis.
tweet_truncate_after_limit(tweet_text) ==
    IF Len(tweet_text) > TweetLimit
    THEN Slice(tweet_text, TweetLimit) \o Ellipsis
    ELSE tweet_text

\* post_article_to_twitter, lines 143-145: the final cut.
tweet_truncate(tweet_text) ==
    IF Len(tweet_text) > TweetLimit
    THEN Slice(tweet_text, TweetLimit - EllipsisLen) \o Ellipsis
    ELSE tweet_text

\* post_article_to_twitter, lines 131-141: the text before the final cut,
\* for the article's title and summary and the article URL.
tweet_assemble(title, summary, article_url) ==
    LET tweet_text == title_line(title) \o Str("\n", 2)
        remaining_chars == TweetLimit - Len(tweet_text) - UrlReserve
        fragment == IF Len(summary) > remaining_chars
                    THEN Slice(summary, remaining_chars) \o Ellipsis
                    ELSE summary
        with_summary == IF Len(summary) > 0
                        THEN tweet_text \o fragment \o Str("\n", 2)
                        ELSE tweet_text
    IN with_summary \o Str("Read more: ", ReadMoreLen) \o article_url

\* The text is not being built.
NoTweet ==
    [pc |-> "none", title |-> 0, summary |-> 0, article_url |-> 0,
     assembled |-> <<>>, text |-> <<>>]

\* post_save: the row as persisted after the handler and the fan-out log.
\* changed is instance._approval_changed; t1 and t2 are the two readings of
\* timezone.now() of the handler.
article_approved_actions(inst, changed, env, t1, t2) ==
    IF ~changed
    THEN [row |-> inst, fan |-> NoFanout]
    ELSE LET stamped == IF inst.approved_at = None
                        THEN [inst EXCEPT !.approved_at = t1, !.published_at = t2]
                        ELSE inst
             mail == send_article_to_subscribers(stamped, env)
             tweet == IF mail.result = "raised"
                      THEN [attempts |-> 0, result |-> "none"]
                      ELSE post_article_to_twitter(stamped, env)
         IN [row |-> stamped,
             fan |-> [calls |-> 1, emails |-> mail.emails,
                      mail_attempts |-> mail.attempts,
                      mail_result |-> mail.result,
                      tweet_attempts |-> tweet.attempts,
                      tweet_result |-> tweet.result,
                      raised |-> mail.result = "raised"
                                 \/ tweet.result = "raised",
                      allowed_hosts |-> env.hosts,
                      bearer_token |-> env.token]]

\* Model.save() of an instance with the two signal handlers around the
\* write of the row.
save(pk, inst, env, t1, t2) ==
    article_approved_actions(inst, track_approval_status(pk, inst), env, t1, t2)

\* --------------------------------------------------------------- Init
\* Publisher names, in alphabetical order; None is a blank name.  The
\* fixtures name publisher 1 'Tech News' and publisher 2 'Sports Daily'.
MaxPublisherNames == 3
PublisherNames == 1 .. MaxPublisherNames
FixtureName(p) == IF p = 1 THEN 3 ELSE 1

\* The store after the fixtures, before any request.
FixturesWith(publisher_rows) ==
    /\ publisher_name = [p \in publisher_rows |-> FixtureName(p)]
    /\ next_publisher_pk = Cardinality(publisher_rows) + 1
    /\ next_user_pk = Cardinality(Users) + 1
    /\ role = (1 :> "reader" @@ 2 :> "reader" @@ 3 :> "journalist" @@ 4 :> "editor")
    /\ email = (1 :> TRUE @@ 2 :> FALSE @@ 3 :> TRUE @@ 4 :> TRUE)
    /\ groups = [u \in Users |-> {get_role_display(role[u])}]
    /\ subscribed_publishers = [u \in Users |-> {}]
    /\ subscribed_journalists = [u \in Users |-> {}]
    /\ affiliated_publishers = [u \in Users |-> IF u = 3 THEN {1} ELSE {}]
    /\ pks = {}
    /\ next_pk = 1
    /\ articles = [a \in ArticleIds |-> NoArticle]
    /\ now = 1
    /\ request = NoRequest
    /\ response = NoResponse
    /\ fanout = NoFanout
    /\ fanout_count = [a \in ArticleIds |-> 0]

\* The server workers that can run requests at the same time, and a worker
\* that runs none.
Workers == {1, 2}
Idle ==
    [pc |-> "idle", user |-> None, pk |-> None, inst |-> NoArticle,
     seen |-> FALSE, changed |-> FALSE]

Fixtures == FixturesWith(Publishers)

Init ==
    /\ Fixtures
    /\ twitter = NoTweet
    /\ inflight = [w \in Workers |-> Idle]

\* The clock advances.
Tick ==
    /\ now < MaxTime
    /\ now' = now + 1
    /\ request' = NoRequest
    /\ response' = NoResponse
    /\ fanout' = NoFanout
    /\ UNCHANGED procvars
    /\ UNCHANGED <<pubvars, uservars, subvars, artvars, fanout_count>>

\* A request that changes nothing in the store.
Answer(r) ==
    /\ response' = r
    /\ fanout' = NoFanout
    /\ UNCHANGED procvars
    /\ UNCHANGED <<pubvars, uservars, subvars, artvars, now, fanout_count>>

\* The write of a saved row with what its handlers did: an exception that
\* leaves the post_save handler leaves the view too (status 500), after the
\* row was written; a caller that saves inside transaction.atomic passes
\* the row as it was.
Persist(pk, res, r, t) ==
    /\ articles' = [articles EXCEPT ![pk] = res.row]
    /\ fanout' = res.fan
    /\ UNCHANGED procvars
    /\ fanout_count' = [fanout_count EXCEPT ![pk] = @ + res.fan.calls]
    /\ response' = IF res.fan.raised THEN Resp(500, "", <<>>) ELSE r
    /\ now' = t

\* Article.clean, called by full_clean when a ModelForm validates its
\* instance: reading self.author of an instance that has no author yet
\* raises RelatedObjectDoesNotExist; an author with another role gives a
\* ValidationError on the field author.
Article_clean(inst) ==
    IF inst.author = None
    THEN "RelatedObjectDoesNotExist"
    ELSE IF role[inst.author] # "journalist"
    THEN "ValidationError"
    ELSE "ok"

\* form.is_valid() of a ModelForm without the field author ends in an
\* exception when Article.clean does not pass: RelatedObjectDoesNotExist is
\* not caught, and a ValidationError for a field the form does not have
\* makes add_error raise ValueError.
ModelForm_raises(inst) == Article_clean(inst) # "ok"

\* --------------------------------------------------------------- views.py
\* article_approve_view, requested by the logged-in user u; d is the advance
\* of the clock between the two readings of timezone.now().
article_approve_view(u, pk, method, posted, env, d) ==
    /\ request' = Req("article_approve_view", u, pk, method, posted, None)
    /\ IF ~has_perm(u, "news.change_article")
       THEN Answer(Resp(403, "", <<>>))
       ELSE IF role[u] # "editor"
       THEN Answer(Resp(302, "home", <<>>))
       ELSE IF pk \notin pks
       THEN Answer(Resp(404, "", <<>>))
       ELSE IF method # "POST"
       THEN Answer(Resp(200, "news/article_approve.html", <<>>))
       ELSE IF ModelForm_raises([articles[pk] EXCEPT !.is_approved = posted])
       THEN Answer(Resp(500, "", <<>>))
       ELSE LET form == [articles[pk] EXCEPT !.is_approved = posted]
                inst == IF form.is_approved
                        THEN [form EXCEPT !.approved_by = u,
                                          !.approved_at = now,
                                          !.published_at = now + d]
                        ELSE form
                t == IF form.is_approved THEN now + d ELSE now
                res == save(pk, inst, env, t, t)
            IN /\ now + d <= MaxTime
               /\ fanout_count[pk] + res.fan.calls <= MaxFanout
               /\ Persist(pk, res, Resp(302, "editor_dashboard", <<>>), t)
               /\ UNCHANGED <<pubvars, uservars, subvars, pks, next_pk>>

\* A variant of toggle_publisher_subscription that subscribes and never
\* unsubscribes.
toggle_publisher_subscription_add_only(u, pk) ==
    /\ request' = Req("toggle_publisher_subscription", u, pk, "GET", FALSE, None)
    /\ IF role[u] # "reader"
       THEN Answer(Resp(302, "publisher_detail", <<>>))
       ELSE IF pk \notin publisher_pks
       THEN Answer(Resp(404, "", <<>>))
       ELSE /\ subscribed_publishers' =
                  [subscribed_publishers EXCEPT ![u] = @ \cup {pk}]
            /\ response' = Resp(302, "publisher_detail", <<>>)
            /\ fanout' = NoFanout
            /\ UNCHANGED procvars
            /\ UNCHANGED <<pubvars, uservars, subscribed_journalists, artvars, now,
                           fanout_count>>

\* toggle_publisher_subscription
toggle_publisher_subscription(u, pk) ==
    /\ request' = Req("toggle_publisher_subscription", u, pk, "GET", FALSE, None)
    /\ IF role[u] # "reader"
       THEN Answer(Resp(302, "publisher_detail", <<>>))
       ELSE IF pk \notin publisher_pks
       THEN Answer(Resp(404, "", <<>>))
       ELSE /\ subscribed_publishers' =
                  [subscribed_publishers EXCEPT ![u] =
                      IF pk \in @ THEN @ \ {pk} ELSE @ \cup {pk}]
            /\ response' = Resp(302, "publisher_detail", <<>>)
            /\ fanout' = NoFanout
            /\ UNCHANGED procvars
            /\ UNCHANGED <<pubvars, uservars, subscribed_journalists, artvars, now,
                           fanout_count>>

\* toggle_journalist_subscription
toggle_journalist_subscription(u, pk) ==
    /\ request' = Req("toggle_journalist_subscription", u, pk, "GET", FALSE, None)
    /\ IF role[u] # "reader"
       THEN Answer(Resp(302, "journalist_profile", <<>>))
       ELSE IF ~(pk \in user_pks /\ role[pk] = "journalist")
       THEN Answer(Resp(404, "", <<>>))
       ELSE /\ subscribed_journalists' =
                  [subscribed_journalists EXCEPT ![u] =
                      IF pk \in @ THEN @ \ {pk} ELSE @ \cup {pk}]
            /\ response' = Resp(302, "journalist_profile", <<>>)
            /\ fanout' = NoFanout
            /\ UNCHANGED procvars
            /\ UNCHANGED <<pubvars, uservars, subscribed_publishers, artvars, now,
                           fanout_count>>

\* A variant of the form whose publisher choices are every publisher for
\* every user.
ArticleForm_is_valid_any_publisher(u, publisher) ==
    \/ publisher = None
    \/ publisher \in publisher_pks

\* ArticleForm.is_valid for the submitted publisher: the choices are the
\* journalist's affiliated publishers, for other users every publisher, and
\* the field may be left blank.
ArticleForm_is_valid(u, publisher) ==
    \/ publisher = None
    \/ IF role[u] = "journalist"
       THEN publisher \in affiliated_publishers[u]
       ELSE publisher \in publisher_pks

\* An environment for the saves that reach no external service.
Quiet == [hosts |-> TRUE, token |-> FALSE, mail_ok |-> TRUE, post |-> "201"]

\* article_create_view.  The form validates an instance that has no author
\* yet: the view sets article.author after form.is_valid().
article_create_view(u, method, publisher) ==
    /\ request' = Req("article_create_view", u, None, method, FALSE, publisher)
    /\ IF ~has_perm(u, "news.add_article")
       THEN Answer(Resp(403, "", <<>>))
       ELSE IF role[u] # "journalist"
       THEN Answer(Resp(302, "home", <<>>))
       ELSE IF method # "POST"
       THEN Answer(Resp(200, "news/article_form.html", <<>>))
       ELSE IF ModelForm_raises(NewArticle(None, publisher, FALSE))
       THEN Answer(Resp(500, "", <<>>))
       ELSE IF ~ArticleForm_is_valid(u, publisher)
       THEN Answer(Resp(200, "news/article_form.html", <<>>))
       ELSE /\ next_pk <= MaxArticles
            /\ pks' = pks \cup {next_pk}
            /\ articles' = [articles EXCEPT ![next_pk] =
                               save(None, NewArticle(u, publisher, FALSE),
                                    Quiet, now, now).row]
            /\ next_pk' = next_pk + 1
            /\ response' = Resp(302, "journalist_dashboard", <<>>)
            /\ fanout' = NoFanout
            /\ UNCHANGED procvars
            /\ UNCHANGED <<pubvars, uservars, subvars, now, fanout_count>>

\* article_update_view
article_update_view(u, pk, method, publisher, env) ==
    /\ request' = Req("article_update_view", u, pk, method, FALSE, publisher)
    /\ IF ~has_perm(u, "news.change_article")
       THEN Answer(Resp(403, "", <<>>))
       ELSE IF pk \notin pks
       THEN Answer(Resp(404, "", <<>>))
       ELSE IF role[u] = "journalist" /\ articles[pk].author # u
       THEN Answer(Resp(302, "article_detail", <<>>))
       ELSE IF method # "POST"
       THEN Answer(Resp(200, "news/article_form.html", <<>>))
       ELSE IF ModelForm_raises([articles[pk] EXCEPT !.publisher = publisher])
       THEN Answer(Resp(500, "", <<>>))
       ELSE IF ~ArticleForm_is_valid(u, publisher)
       THEN Answer(Resp(200, "news/article_form.html", <<>>))
       ELSE LET inst == [articles[pk] EXCEPT !.publisher = publisher]
                res == save(pk, inst, env, now, now)
            IN /\ fanout_count[pk] + res.fan.calls <= MaxFanout
               /\ Persist(pk, res, Resp(302, "article_detail", <<>>), now)
               /\ UNCHANGED <<pubvars, uservars, subvars, pks, next_pk>>

\* article_delete_view
article_delete_view(u, pk, method) ==
    /\ request' = Req("article_delete_view", u, pk, method, FALSE, None)
    /\ IF ~has_perm(u, "news.delete_article")
       THEN Answer(Resp(403, "", <<>>))
       ELSE IF pk \notin pks
       THEN Answer(Resp(404, "", <<>>))
       ELSE IF role[u] = "journalist" /\ articles[pk].author # u
       THEN Answer(Resp(302, "article_detail", <<>>))
       ELSE IF method # "POST"
       THEN Answer(Resp(200, "news/article_confirm_delete.html", <<>>))
       ELSE /\ pks' = pks \ {pk}
            /\ articles' = [articles EXCEPT ![pk] = NoArticle]
            /\ response' = Resp(302, "article_list", <<>>)
            /\ fanout' = NoFanout
            /\ UNCHANGED procvars
            /\ UNCHANGED <<pubvars, uservars, subvars, next_pk, now, fanout_count>>

\* ------------------------------------------------- publisher_create_view
\* The most Publisher rows ever stored.
MaxPublishers == 2

\* The names of the stored publishers.
names_taken == {publisher_name[p] : p \in publisher_pks}

\* PublisherForm.is_valid: the name is required and unique.
PublisherForm_is_valid(name) == name # None /\ name \notin names_taken

\* publisher_create_view
publisher_create_view(u, method, name) ==
    /\ request' = Req("publisher_create_view", u, None, method, FALSE, name)
    /\ IF ~has_perm(u, "news.add_publisher")
       THEN Answer(Resp(403, "", <<>>))
       ELSE IF role[u] # "editor"
       THEN Answer(Resp(302, "publisher_list", <<>>))
       ELSE IF method # "POST" \/ ~PublisherForm_is_valid(name)
       THEN Answer(Resp(200, "news/publisher_form.html", <<>>))
       ELSE /\ next_publisher_pk <= MaxPublishers
            /\ publisher_name' = publisher_name @@ (next_publisher_pk :> name)
            /\ next_publisher_pk' = next_publisher_pk + 1
            /\ response' = Resp(302, "publisher_detail", <<>>)
            /\ fanout' = NoFanout
            /\ UNCHANGED procvars
            /\ UNCHANGED <<uservars, subvars, artvars, now, fanout_count>>

\* ------------------------------------------------------ CustomUser.save
\* A variant of the save that empties the relationship sets the new role
\* does not use.
CustomUser_save_sets_cleared(u, new_role) ==
    [subscribed_publishers |->
        IF new_role = "reader" THEN subscribed_publishers[u] ELSE {},
     subscribed_journalists |->
        IF new_role = "reader" THEN subscribed_journalists[u] ELSE {},
     affiliated_publishers |->
        IF new_role = "journalist" THEN affiliated_publishers[u] ELSE {}]

\* The many-to-many sets of the user after CustomUser.save with a new role:
\* super().save() writes the columns of the row and assign_to_group touches
\* the groups only.
CustomUser_save_sets(u, new_role) ==
    [subscribed_publishers |-> subscribed_publishers[u],
     subscribed_journalists |-> subscribed_journalists[u],
     affiliated_publishers |-> affiliated_publishers[u]]

\* assign_to_group: the groups of a user saved with the role new_role.
assign_to_group(new_role) == {get_role_display(new_role)}

\* The most CustomUser rows ever stored.
MaxUsers == 5

\* The table after the insert of the row pk.  A row inserted with a preset
\* primary key moves the sequence past it on the stores that derive the
\* next key from the rows (SQLite, MySQL) and leaves it on the stores with
\* a separate sequence (PostgreSQL).
insert_user(pk, new_role, new_email, new_groups) ==
    /\ role' = role @@ (pk :> new_role)
    /\ email' = email @@ (pk :> new_email)
    /\ groups' = groups @@ (pk :> new_groups)
    /\ subscribed_publishers' = subscribed_publishers @@ (pk :> {})
    /\ subscribed_journalists' = subscribed_journalists @@ (pk :> {})
    /\ affiliated_publishers' = affiliated_publishers @@ (pk :> {})

\* CustomUser.save of an instance with primary key pk (None for an instance
\* that has none), role new_role and email new_email (non-empty or not).
\*   - pk is None (is_new): the row is inserted with the next key of the
\*     sequence and assign_to_group runs; when that key is taken by a row
\*     that was inserted with a preset key, the insert raises
\*     IntegrityError and nothing is stored.
\*   - pk is set and no row has it (CustomUser.DoesNotExist is passed
\*     over, old_role stays None): the row is inserted with that key and
\*     assign_to_group does not run, so the user is in no group.
\*   - pk is the key of a stored row: the row is written, and
\*     assign_to_group runs when the stored role differs from the new one.
\* raised tells whether the call ended in the IntegrityError.
CustomUser_save(pk, new_role, new_email, raised) ==
    LET is_new == pk = None
    IN IF is_new
       THEN IF next_user_pk \in user_pks
            THEN /\ raised
                 /\ next_user_pk' = next_user_pk + 1
                 /\ UNCHANGED <<role, email, groups, subscribed_publishers,
                                subscribed_journalists, affiliated_publishers>>
            ELSE /\ ~raised
                 /\ insert_user(next_user_pk, new_role, new_email,
                                assign_to_group(new_role))
                 /\ next_user_pk' = next_user_pk + 1
       ELSE IF pk \notin user_pks
       THEN /\ ~raised
            /\ insert_user(pk, new_role, new_email, {})
            /\ \/ next_user_pk' = next_user_pk
               \/ next_user_pk' = IF pk >= next_user_pk THEN pk + 1
                                  ELSE next_user_pk
       ELSE LET old_role == role[pk]
                sets == CustomUser_save_sets(pk, new_role)
            IN /\ ~raised
               /\ role' = [role EXCEPT ![pk] = new_role]
               /\ email' = [email EXCEPT ![pk] = new_email]
               /\ groups' = IF old_role # new_role
                            THEN [groups EXCEPT ![pk] = assign_to_group(new_role)]
                            ELSE groups
               /\ subscribed_publishers' =
                     [subscribed_publishers EXCEPT
                         ![pk] = sets.subscribed_publishers]
               /\ subscribed_journalists' =
                     [subscribed_journalists EXCEPT
                         ![pk] = sets.subscribed_journalists]
               /\ affiliated_publishers' =
                     [affiliated_publishers EXCEPT
                         ![pk] = sets.affiliated_publishers]
               /\ UNCHANGED next_user_pk

\* A call of save() on a CustomUser instance outside a view (a shell, a
\* test, a management command): user.role = new_role; user.save() for a
\* stored user, or CustomUser(pk=pk, role=new_role).save().  No form writes
\* the many-to-many fields afterwards.
CustomUser_save_call(pk, new_role, new_email) ==
    /\ pk # None
    /\ pk <= MaxUsers
    /\ request' = Req("CustomUser.save", None, pk, "", FALSE, None)
    /\ CustomUser_save(pk, new_role, new_email, FALSE)
    /\ response' = NoResponse
    /\ fanout' = NoFanout
    /\ UNCHANGED procvars
    /\ UNCHANGED <<pubvars, artvars, now, fanout_count>>

\* user.role = new_role; user.save() for the stored user u.
role_save(u, new_role) ==
    /\ u \in user_pks
    /\ CustomUser_save_call(u, new_role, email[u])

\* CustomUser.objects.create_user(role=..., email=...), as in tests.py: the
\* instance has no primary key.  An IntegrityError leaves the call.
create_user(new_role, new_email) ==
    /\ next_user_pk <= MaxUsers
    /\ request' = Req("CustomUser.objects.create_user", None, None, "",
                      FALSE, None)
    /\ \E raised \in BOOLEAN :
          /\ CustomUser_save(None, new_role, new_email, raised)
          /\ response' = IF raised THEN Resp(500, "", <<>>) ELSE NoResponse
    /\ fanout' = NoFanout
    /\ UNCHANGED procvars
    /\ UNCHANGED <<pubvars, artvars, now, fanout_count>>

\* register_view for the request user u (None without a session); valid
\* says whether CustomUserCreationForm validates (the email is required,
\* the role is one of ROLE_CHOICES).
register_view(u, method, new_role, valid) ==
    /\ request' = Req("register_view", u, None, method, FALSE, None)
    /\ IF u # None
       THEN Answer(Resp(302, "home", <<>>))
       ELSE IF method # "POST" \/ ~valid
       THEN Answer(Resp(200, "news/register.html", <<>>))
       ELSE /\ next_user_pk <= MaxUsers
            /\ \E raised \in BOOLEAN :
                  /\ CustomUser_save(None, new_role, TRUE, raised)
                  /\ response' = IF raised THEN Resp(500, "", <<>>)
                                 ELSE Resp(302, "home", <<>>)
            /\ fanout' = NoFanout
            /\ UNCHANGED procvars
            /\ UNCHANGED <<pubvars, artvars, now, fanout_count>>

\* ---------------------------------------------- rows made outside the views
\* Article.objects.create(author=..., publisher=..., is_approved=...) as in
\* the fixtures of tests.py: an unsaved instance is saved, so the pre_save
\* handler sees no primary key.
Article_objects_create(author, publisher, is_approved) ==
    /\ next_pk <= MaxArticles
    /\ request' = Req("Article.objects.create", None, None, "", is_approved,
                      publisher)
    /\ pks' = pks \cup {next_pk}
    /\ articles' = [articles EXCEPT ![next_pk] =
                       save(None, NewArticle(author, publisher, is_approved),
                            Quiet, now, now).row]
    /\ next_pk' = next_pk + 1
    /\ response' = NoResponse
    /\ fanout' = NoFanout
    /\ UNCHANGED procvars
    /\ UNCHANGED <<pubvars, uservars, subvars, now, fanout_count>>

\* ----------------------------------------------------------------- admin.py
\* The views of the admin site are requested by a staff user who holds the
\* permissions of the model (request.user is not recorded: None).  The add,
\* change and delete views run inside transaction.atomic, so an exception
\* that leaves a signal handler undoes the writes of the request.  A change
\* or delete view asked for a row that does not exist redirects to the
\* index of the site.

\* The deletion of a set of Article rows.
delete_articles(gone) ==
    /\ pks' = pks \ gone
    /\ articles' = [a \in ArticleIds |->
                       IF a \in gone THEN NoArticle ELSE articles[a]]

\* The form of ArticleAdmin validates: the author is required and is one
\* of the choices of limit_choices_to, the publisher is a stored row or
\* empty.  In the change view the instance keeps its stored author when the
\* posted one is no choice, and the ValidationError of Article.clean for a
\* stored author of another role is an error of the form's field author.
ArticleAdmin_is_valid(author, publisher) ==
    /\ author \in user_pks
    /\ role[author] = "journalist"
    /\ publisher \in publisher_pks \cup {None}

\* ArticleAdmin, add view: approved_by and approved_at are read-only and
\* stay empty; the instance has no primary key, so the pre_save handler
\* sees no approval edge whatever is_approved is.  An author that is no
\* choice of the field is not written to the new instance, and Article.clean
\* reads self.author of it: RelatedObjectDoesNotExist is no ValidationError
\* and leaves the view (status 500).  With an author set, a publisher that
\* is no stored row shows the form again.
ArticleAdmin_add(author, publisher, is_approved, published_at) ==
    /\ request' = Req("ArticleAdmin.add", None, None, "POST", is_approved,
                      publisher)
    /\ IF Article_clean(NewArticle(IF author \in user_pks
                                      /\ role[author] = "journalist"
                                   THEN author ELSE None,
                                   None, is_approved))
             = "RelatedObjectDoesNotExist"
       THEN Answer(Resp(500, "", <<>>))
       ELSE IF ~ArticleAdmin_is_valid(author, publisher)
       THEN Answer(Resp(200, "admin/change_form.html", <<>>))
       ELSE /\ next_pk <= MaxArticles
            /\ pks' = pks \cup {next_pk}
            /\ articles' = [articles EXCEPT ![next_pk] =
                               save(None,
                                    [NewArticle(author, publisher, is_approved)
                                        EXCEPT !.published_at = published_at],
                                    Quiet, now, now).row]
            /\ next_pk' = next_pk + 1
            /\ response' = Resp(302, "admin", <<>>)
            /\ fanout' = NoFanout
            /\ UNCHANGED procvars
            /\ UNCHANGED <<pubvars, uservars, subvars, now, fanout_count>>

\* ArticleAdmin, change view: the form writes author, publisher,
\* is_approved and published_at (approved_by and approved_at are
\* read-only); d is the advance of the clock between the two readings of
\* timezone.now() in the post_save handler.  When the handler raises, the
\* row and its stamps are rolled back.
ArticleAdmin_change(pk, author, publisher, is_approved, published_at, env, d) ==
    /\ request' = Req("ArticleAdmin", None, pk, "POST", is_approved, publisher)
    /\ IF pk \notin pks
       THEN Answer(Resp(302, "admin", <<>>))
       ELSE IF ~ArticleAdmin_is_valid(author, publisher)
       THEN Answer(Resp(200, "admin/change_form.html", <<>>))
       ELSE LET inst == [articles[pk] EXCEPT !.author = author,
                                             !.publisher = publisher,
                                             !.is_approved = is_approved,
                                             !.published_at = published_at]
                res == save(pk, inst, env, now, now + d)
                reads == res.fan.calls = 1 /\ inst.approved_at = None
                rolled_back == [res EXCEPT !.row = articles[pk]]
            IN /\ now + d <= MaxTime
               /\ (d = 1 => reads)
               /\ fanout_count[pk] + res.fan.calls <= MaxFanout
               /\ Persist(pk, IF res.fan.raised THEN rolled_back ELSE res,
                          Resp(302, "admin", <<>>), now + d)
               /\ UNCHANGED <<pubvars, uservars, subvars, pks, next_pk>>

\* ArticleAdmin, delete view.
ArticleAdmin_delete(pk) ==
    /\ request' = Req("ArticleAdmin.delete", None, pk, "POST", FALSE, None)
    /\ IF pk \notin pks
       THEN Answer(Resp(302, "admin", <<>>))
       ELSE /\ delete_articles({pk})
            /\ response' = Resp(302, "admin", <<>>)
            /\ fanout' = NoFanout
            /\ UNCHANGED procvars
            /\ UNCHANGED <<pubvars, uservars, subvars, next_pk, now, fanout_count>>

\* CustomUserAdmin, add view: the add form of UserAdmin has the username
\* and the password only, so the user is saved with the default role and
\* no email; save_m2m has no field to write.
CustomUserAdmin_add ==
    /\ request' = Req("CustomUserAdmin.add", None, None, "POST", FALSE, None)
    /\ next_user_pk <= MaxUsers
    /\ \E raised \in BOOLEAN :
          /\ CustomUser_save(None, "reader", FALSE, raised)
          /\ response' = IF raised THEN Resp(500, "", <<>>)
                         ELSE Resp(302, "admin", <<>>)
    /\ fanout' = NoFanout
    /\ UNCHANGED procvars
    /\ UNCHANGED <<pubvars, artvars, now, fanout_count>>

\* The names of the Group rows: assign_to_group made one for each role of
\* the fixtures.
GroupNames == {get_role_display(r) : r \in ROLE_CHOICES}

\* CustomUserAdmin, change view: the form has role, email, groups and the
\* three many-to-many fields of the fieldsets.  save_model calls
\* CustomUser.save (which may run assign_to_group), then save_m2m writes
\* the submitted groups and sets over what the save left.
CustomUserAdmin_change(u, new_role, new_email, new_groups, publishers, journalists, affiliated) ==
    /\ request' = Req("CustomUserAdmin", None, u, "POST", FALSE, None)
    /\ IF u \notin user_pks
       THEN Answer(Resp(302, "admin", <<>>))
       ELSE IF ~(/\ new_role \in ROLE_CHOICES
                 /\ new_groups \subseteq GroupNames
                 /\ publishers \subseteq publisher_pks
                 /\ journalists \subseteq user_pks
                 /\ affiliated \subseteq publisher_pks)
       THEN Answer(Resp(200, "admin/change_form.html", <<>>))
       ELSE /\ role' = [role EXCEPT ![u] = new_role]
            /\ email' = [email EXCEPT ![u] = new_email]
            /\ groups' = [groups EXCEPT ![u] = new_groups]
            /\ subscribed_publishers' =
                  [subscribed_publishers EXCEPT ![u] = publishers]
            /\ subscribed_journalists' =
                  [subscribed_journalists EXCEPT ![u] = journalists]
            /\ affiliated_publishers' =
                  [affiliated_publishers EXCEPT ![u] = affiliated]
            /\ response' = Resp(302, "admin", <<>>)
            /\ fanout' = NoFanout
            /\ UNCHANGED procvars
            /\ UNCHANGED <<pubvars, next_user_pk, artvars, now, fanout_count>>

\* A function without the argument gone.
Without(f, gone) == [x \in DOMAIN f \ {gone} |-> f[x]]

\* CustomUserAdmin, delete view: the rows that point to the user go with
\* it or are emptied: the articles the user authored are deleted
\* (on_delete CASCADE), approved_by of the articles the user approved is
\* set to NULL (SET_NULL), and the user leaves the subscribed_journalists
\* of the others.
CustomUserAdmin_delete(u) ==
    /\ request' = Req("CustomUserAdmin.delete", None, u, "POST", FALSE, None)
    /\ IF u \notin user_pks
       THEN Answer(Resp(302, "admin", <<>>))
       ELSE /\ role' = Without(role, u)
            /\ email' = Without(email, u)
            /\ groups' = Without(groups, u)
            /\ subscribed_publishers' = Without(subscribed_publishers, u)
            /\ affiliated_publishers' = Without(affiliated_publishers, u)
            /\ subscribed_journalists' =
                  [x \in user_pks \ {u} |-> subscribed_journalists[x] \ {u}]
            /\ pks' = {a \in pks : articles[a].author # u}
            /\ articles' =
                  [a \in ArticleIds |->
                      IF articles[a].author = u THEN NoArticle
                      ELSE IF articles[a].approved_by = u
                      THEN [articles[a] EXCEPT !.approved_by = None]
                      ELSE articles[a]]
            /\ response' = Resp(302, "admin", <<>>)
            /\ fanout' = NoFanout
            /\ UNCHANGED procvars
            /\ UNCHANGED <<pubvars, next_user_pk, next_pk, now, fanout_count>>

\* PublisherAdmin, add view.
PublisherAdmin_add(name) ==
    /\ request' = Req("PublisherAdmin.add", None, None, "POST", FALSE, name)
    /\ IF ~PublisherForm_is_valid(name)
       THEN Answer(Resp(200, "admin/change_form.html", <<>>))
       ELSE /\ next_publisher_pk <= MaxPublishers
            /\ publisher_name' = publisher_name @@ (next_publisher_pk :> name)
            /\ next_publisher_pk' = next_publisher_pk + 1
            /\ response' = Resp(302, "admin", <<>>)
            /\ fanout' = NoFanout
            /\ UNCHANGED procvars
            /\ UNCHANGED <<uservars, subvars, artvars, now, fanout_count>>

\* PublisherAdmin, change view: the name is required and no other row has
\* it.
PublisherAdmin_change(pk, name) ==
    /\ request' = Req("PublisherAdmin", None, pk, "POST", FALSE, name)
    /\ IF pk \notin publisher_pks
       THEN Answer(Resp(302, "admin", <<>>))
       ELSE IF name = None
               \/ \E p \in publisher_pks \ {pk} : publisher_name[p] = name
       THEN Answer(Resp(200, "admin/change_form.html", <<>>))
       ELSE /\ publisher_name' = [publisher_name EXCEPT ![pk] = name]
            /\ response' = Resp(302, "admin", <<>>)
            /\ fanout' = NoFanout
            /\ UNCHANGED procvars
            /\ UNCHANGED <<next_publisher_pk, uservars, subvars, artvars, now,
                           fanout_count>>

\* PublisherAdmin, delete view: the articles of the publisher are deleted
\* (on_delete CASCADE) and the publisher leaves the subscribed_publishers
\* and affiliated_publishers of every user.
PublisherAdmin_delete(pk) ==
    /\ request' = Req("PublisherAdmin.delete", None, pk, "POST", FALSE, None)
    /\ IF pk \notin publisher_pks
       THEN Answer(Resp(302, "admin", <<>>))
       ELSE /\ publisher_name' = Without(publisher_name, pk)
            /\ subscribed_publishers' =
                  [x \in user_pks |-> subscribed_publishers[x] \ {pk}]
            /\ affiliated_publishers' =
                  [x \in user_pks |-> affiliated_publishers[x] \ {pk}]
            /\ delete_articles({a \in pks : articles[a].publisher = pk})
            /\ response' = Resp(302, "admin", <<>>)
            /\ fanout' = NoFanout
            /\ UNCHANGED procvars
            /\ UNCHANGED <<next_publisher_pk, role, email, groups,
                           subscribed_journalists, next_user_pk, next_pk, now,
                           fanout_count>>

\* ------------------------------------------------------------ api_views.py
\* Article.objects.filter: the rows of the Article table that satisfy a
\* WHERE clause (given as the set of their primary keys), one per row.
filter(matching) == SetToSeq(pks \cap matching)

\* ORDER BY published_at DESC.  The store decides where NULL sorts (first
\* on some back ends, last on others) and how ties are broken: x may not
\* come after y when DescBefore(x, y, nulls_first).
DescBefore(x, y, nulls_first) ==
    IF x # None /\ y # None THEN x > y
    ELSE IF x = None /\ y # None THEN nulls_first
    ELSE IF x # None /\ y = None THEN ~nulls_first
    ELSE FALSE

\* The permutations of 1 .. n.
Perms(n) == {f \in [1 .. n -> 1 .. n] : \A i, j \in 1 .. n : f[i] = f[j] => i = j}

\* order_by('-published_at'): every sequence the store may return.
order_by_published_at(rows) ==
    {[i \in 1 .. Len(rows) |-> rows[f[i]]] :
        f \in {g \in Perms(Len(rows)) :
                 \E nulls_first \in BOOLEAN :
                    \A i, j \in 1 .. Len(rows) :
                       i < j => ~DescBefore(articles[rows[g[j]]].published_at,
                                            articles[rows[g[i]]].published_at,
                                            nulls_first)}}

\* A variant of the filter of get_queryset that appends the rows matched
\* through the publisher and the rows matched through the author.
get_queryset_rows_appended(u) ==
    filter({a \in ArticleIds : articles[a].is_approved
                /\ articles[a].publisher \in subscribed_publishers[u]})
    \o filter({a \in ArticleIds : articles[a].is_approved
                   /\ articles[a].author \in subscribed_journalists[u]})

\* A variant of the filter of get_queryset without is_approved=True.
get_queryset_rows_any_status(u) ==
    filter({a \in ArticleIds : articles[a].publisher \in subscribed_publishers[u]
                \/ articles[a].author \in subscribed_journalists[u]})

\* The filter of ArticleViewSet.get_queryset for request.user = u.
get_queryset_rows(u) ==
    filter({a \in ArticleIds : (articles[a].publisher \in subscribed_publishers[u]
                \/ articles[a].author \in subscribed_journalists[u])
                /\ articles[a].is_approved})

\* ArticleViewSet.get_queryset: the sequences the queryset may evaluate to.
get_queryset(u) == order_by_published_at(get_queryset_rows(u))

\* GET /api/articles/ : the responses the list endpoint may give to u.
list(u) == {Resp(200, "", data) : data \in get_queryset(u)}

\* A query parameter that is not a number: the id lookup raises ValueError.
NotANumber == 0 - 1

\* A variant of by_publisher without the subscription check.
by_publisher_unchecked(u, publisher_id) ==
    {Resp(200, "", data) :
        data \in order_by_published_at(
                    filter({a \in ArticleIds : articles[a].publisher = publisher_id
                                /\ articles[a].is_approved}))}

\* ArticleViewSet.by_publisher: the responses it may give; publisher_id is
\* None when the query parameter is missing.  The parameter is tested
\* first; request.user.subscribed_publishers is read next, which the
\* AnonymousUser (u = None) does not have (AttributeError).
by_publisher(u, publisher_id) ==
    IF publisher_id = None
    THEN {Resp(400, "", <<>>)}
    ELSE IF u = None
    THEN {Resp(500, "", <<>>)}
    ELSE IF publisher_id = NotANumber
    THEN {Resp(500, "", <<>>)}
    ELSE IF publisher_id \notin subscribed_publishers[u]
    THEN {Resp(403, "", <<>>)}
    ELSE {Resp(200, "", data) :
            data \in order_by_published_at(
                        filter({a \in ArticleIds : articles[a].publisher = publisher_id
                                    /\ articles[a].is_approved}))}

\* ArticleViewSet.by_journalist
by_journalist(u, journalist_id) ==
    IF journalist_id = None
    THEN {Resp(400, "", <<>>)}
    ELSE IF u = None
    THEN {Resp(500, "", <<>>)}
    ELSE IF journalist_id = NotANumber
    THEN {Resp(500, "", <<>>)}
    ELSE IF journalist_id \notin subscribed_journalists[u]
    THEN {Resp(403, "", <<>>)}
    ELSE {Resp(200, "", data) :
            data \in order_by_published_at(
                        filter({a \in ArticleIds : articles[a].author = journalist_id
                                    /\ articles[a].is_approved}))}

\* The three requests of an authenticated user u.
ArticleViewSet_list(u) ==
    /\ request' = Req("ArticleViewSet.list", u, None, "GET", FALSE, None)
    /\ \E r \in list(u) : Answer(r)

ArticleViewSet_by_publisher(u, publisher_id) ==
    /\ request' = Req("ArticleViewSet.by_publisher", u, publisher_id, "GET",
                      FALSE, None)
    /\ \E r \in by_publisher(u, publisher_id) : Answer(r)

ArticleViewSet_by_journalist(u, journalist_id) ==
    /\ request' = Req("ArticleViewSet.by_journalist", u, journalist_id, "GET",
                      FALSE, None)
    /\ \E r \in by_journalist(u, journalist_id) : Answer(r)

\* The routes of the router of api_urls.py: for each registered viewset
\* the list route and the detail route (retrieve), the extra actions of
\* ArticleViewSet, and the API root view of DefaultRouter.
Endpoints ==
    {"ArticleViewSet.list", "ArticleViewSet.retrieve",
     "ArticleViewSet.by_publisher", "ArticleViewSet.by_journalist",
     "ArticleViewSet.subscriptions",
     "PublisherViewSet.list", "PublisherViewSet.retrieve",
     "JournalistViewSet.list", "JournalistViewSet.retrieve",
     "APIRootView"}

\* A variant of the permission check that lets every request through.
IsAuthenticated_allow_any(u) == TRUE

\* permissions.IsAuthenticated and IsReaderOrReadOnly.has_permission: the
\* request has a user and the user is authenticated (None stands for the
\* AnonymousUser of a request without credentials).
IsAuthenticated(u) == u # None

\* The statuses of a request that fails the permission check without
\* credentials: 401 when the first authentication class of the settings
\* has an authenticate header, 403 otherwise.
NotAuthenticatedStatuses == {401, 403}

\* Every order of the rows of a queryset without ordering.
any_order(rows) ==
    {[i \in 1 .. Len(rows) |-> rows[f[i]]] : f \in Perms(Len(rows))}

\* The rows of one kind in serialized data.
Tagged(kind, rows) == [i \in 1 .. Len(rows) |-> <<kind, rows[i]>>]

\* ArticleViewSet.subscriptions
subscriptions(u) ==
    {Resp(200, "", Tagged("publisher", ps) \o Tagged("journalist", js)) :
        ps \in any_order(SetToSeq(subscribed_publishers[u])),
        js \in any_order(SetToSeq(subscribed_journalists[u]))}

\* PublisherViewSet.list (Publisher.Meta.ordering is the name, which is
\* unique).
PublisherViewSet_list ==
    {Resp(200, "", Tagged("publisher", rows)) :
        rows \in {r \in any_order(SetToSeq(publisher_pks)) :
                    \A i, j \in 1 .. Len(r) :
                       i < j => publisher_name[r[i]] < publisher_name[r[j]]}}

\* JournalistViewSet.list
JournalistViewSet_list ==
    {Resp(200, "", Tagged("journalist", js)) :
        js \in any_order(SetToSeq({j \in user_pks : role[j] = "journalist"}))}

\* ArticleViewSet.retrieve: get_object looks the row up in get_queryset(),
\* so a row the user does not follow, a pending row, a missing row and a
\* pk that is not a number are answered 404.
ArticleViewSet_retrieve(u, pk) ==
    IF pk \in Range(get_queryset_rows(u))
    THEN {Resp(200, "", <<pk>>)}
    ELSE {Resp(404, "", <<>>)}

\* PublisherViewSet.retrieve
PublisherViewSet_retrieve(pk) ==
    IF pk \in publisher_pks
    THEN {Resp(200, "", Tagged("publisher", <<pk>>))}
    ELSE {Resp(404, "", <<>>)}

\* JournalistViewSet.retrieve
JournalistViewSet_retrieve(pk) ==
    IF pk \in user_pks /\ role[pk] = "journalist"
    THEN {Resp(200, "", Tagged("journalist", <<pk>>))}
    ELSE {Resp(404, "", <<>>)}

\* What the get handler of a viewset route answers to a request that
\* passed the permission check; param is the query parameter of an extra
\* action or the pk of a detail route.  get_queryset and subscriptions read
\* request.user.subscribed_publishers, which the AnonymousUser (u = None)
\* does not have (AttributeError).
handler(endpoint, u, param) ==
    CASE endpoint = "PublisherViewSet.list" -> PublisherViewSet_list
      [] endpoint = "PublisherViewSet.retrieve" -> PublisherViewSet_retrieve(param)
      [] endpoint = "JournalistViewSet.list" -> JournalistViewSet_list
      [] endpoint = "JournalistViewSet.retrieve" -> JournalistViewSet_retrieve(param)
      [] endpoint = "ArticleViewSet.by_publisher" ->
           {Resp(r.status, "", Tagged("article", r.data)) :
               r \in by_publisher(u, param)}
      [] endpoint = "ArticleViewSet.by_journalist" ->
           {Resp(r.status, "", Tagged("article", r.data)) :
               r \in by_journalist(u, param)}
      [] OTHER ->
           IF u = None
           THEN {Resp(500, "", <<>>)}
           ELSE CASE endpoint = "ArticleViewSet.list" ->
                       {Resp(200, "", Tagged("article", r.data)) : r \in list(u)}
                  [] endpoint = "ArticleViewSet.retrieve" ->
                       {Resp(r.status, "", Tagged("article", r.data)) :
                           r \in ArticleViewSet_retrieve(u, param)}
                  [] OTHER -> subscriptions(u)

\* The methods a route of a read-only viewset has a handler for: the
\* router maps get, the viewset adds head to it, and APIView has options.
SafeMethods == {"GET", "HEAD", "OPTIONS"}

\* The API root view of DefaultRouter.  Its permission classes are the
\* defaults of the settings: the request is refused (401 or 403 without
\* credentials, 403 with them) or let through; the answer lists the URLs
\* of the list routes and no row.
APIRootView(u, method) ==
    {Resp(status, "", <<>>) :
        status \in (IF u = None THEN NotAuthenticatedStatuses ELSE {403})
                   \cup {IF method \in SafeMethods THEN 200 ELSE 405}}

\* APIView.dispatch for a request to an endpoint: initial() checks the
\* permissions before the handler of the method is looked up.  HEAD runs
\* the get handler, OPTIONS is answered by APIView.options with the
\* description of the view, and another method has no handler (405).
dispatch(endpoint, u, method, param) ==
    /\ request' = Req(endpoint, u, param, method, FALSE, None)
    /\ IF endpoint = "APIRootView"
       THEN \E r \in APIRootView(u, method) : Answer(r)
       ELSE IF ~IsAuthenticated(u)
       THEN \E status \in NotAuthenticatedStatuses :
               Answer(Resp(status, "", <<>>))
       ELSE IF method \in {"GET", "HEAD"}
       THEN \E r \in handler(endpoint, u, param) : Answer(r)
       ELSE IF method = "OPTIONS"
       THEN Answer(Resp(200, "", <<>>))
       ELSE Answer(Resp(405, "", <<>>))

\* ---------------------------------------------------------- specification
\* The users Article.author offers (limit_choices_to): the rows created
\* outside the views are given a journalist as author, as in tests.py.
Journalists == {u \in user_pks : role[u] = "journalist"}

\* The workflow specification follows one article through its life; the
\* visibility specification has MaxArticles of them.
MaxFlowArticles == 1
FlowIds == 1 .. MaxFlowArticles

\* The environments and clock readings a save can observe: they are read
\* only when the save takes is_approved from false to true or stamps.
EnvsOf(pk, is_approved) ==
    IF pk \in pks /\ is_approved /\ ~articles[pk].is_approved
    THEN Envs ELSE {Quiet}

TicksOf(is_approved) == IF is_approved THEN {0, 1} ELSE {0}

\* The requests of the approval workflow.
Approve ==
    \E u \in Users, pk \in FlowIds :
       \/ article_approve_view(u, pk, "GET", FALSE, Quiet, 0)
       \/ \E posted \in BOOLEAN :
             \E env \in EnvsOf(pk, posted), d \in TicksOf(posted) :
                article_approve_view(u, pk, "POST", posted, env, d)

TogglePublisher ==
    \E u \in Users, pk \in Publishers \cup {2} :
       toggle_publisher_subscription(u, pk)

ToggleJournalist ==
    \E u \in Users, pk \in {3, 4} : toggle_journalist_subscription(u, pk)

Create ==
    /\ next_pk <= MaxFlowArticles
    /\ \E u \in Users, publisher \in Publishers \cup {None} :
          article_create_view(u, "POST", publisher)

Update ==
    \E u \in Users, pk \in FlowIds, publisher \in Publishers \cup {None} :
       article_update_view(u, pk, "POST", publisher, Quiet)

Delete ==
    \E u \in Users, pk \in FlowIds : article_delete_view(u, pk, "POST")

ObjectsCreate ==
    /\ next_pk <= MaxFlowArticles
    /\ \E author \in Journalists, publisher \in Publishers \cup {None},
          is_approved \in BOOLEAN :
          Article_objects_create(author, publisher, is_approved)

AdminChange ==
    \E pk \in FlowIds \cap pks, is_approved \in BOOLEAN :
       \E env \in EnvsOf(pk, is_approved), d \in TicksOf(is_approved) :
          ArticleAdmin_change(pk, articles[pk].author, articles[pk].publisher,
                              is_approved, articles[pk].published_at, env, d)

Next ==
    \/ Tick
    \/ Approve
    \/ TogglePublisher
    \/ ToggleJournalist
    \/ Create
    \/ Update
    \/ Delete
    \/ ObjectsCreate
    \/ AdminChange

Spec == Init /\ [][Next]_vars

\* The visibility specification: the requests that decide what the article
\* endpoints list, with no external service reachable, and the endpoints
\* themselves.  User 2 sends no subscription request here, so it stays a
\* reader without subscriptions.
VisApprove ==
    \E pk \in ArticleIds, posted \in BOOLEAN : \E d \in TicksOf(posted) :
       article_approve_view(4, pk, "POST", posted, Quiet, d)

VisTogglePublisher == \E pk \in Publishers : toggle_publisher_subscription(1, pk)

VisToggleJournalist == \E pk \in {3} : toggle_journalist_subscription(1, pk)

VisUpdate ==
    \E u \in {3, 4}, pk \in ArticleIds, publisher \in Publishers \cup {None} :
       article_update_view(u, pk, "POST", publisher, Quiet)

VisObjectsCreate ==
    \E author \in Journalists, publisher \in Publishers \cup {None},
       is_approved \in BOOLEAN :
       Article_objects_create(author, publisher, is_approved)

\* The users who read, and the ids a request can name: the rows that exist,
\* one that does not, a missing parameter and a parameter that is no number.
Readers == {1, 2}
PublisherParams == Publishers \cup {2, None, NotANumber}
JournalistParams == {3, 4, None, NotANumber}

List == \E u \in Readers : ArticleViewSet_list(u)

ByPublisher ==
    \E u \in Readers, publisher_id \in PublisherParams :
       ArticleViewSet_by_publisher(u, publisher_id)

ByJournalist ==
    \E u \in Readers, journalist_id \in JournalistParams :
       ArticleViewSet_by_journalist(u, journalist_id)

NextVis ==
    \/ Tick
    \/ VisApprove
    \/ VisTogglePublisher
    \/ VisToggleJournalist
    \/ VisUpdate
    \/ VisObjectsCreate
    \/ List
    \/ ByPublisher
    \/ ByJournalist

SpecVis == Init /\ [][NextVis]_vars

\* The specification of the text of the social post: post_article_to_twitter
\* is entered with an article whose title, summary and URL have any of the
\* lengths below, assembles the text and cuts it.
MaxTitle == 300
MaxSummary == 500
TitleLens == {1, 50, 100, 150, 200} \cup (220 .. 265) \cup {MaxTitle}
SummaryLens == {0, 1, 100, 229, 230, MaxSummary}
UrlLens == {14, 30, 100}

InitTweet ==
    /\ Fixtures
    /\ inflight = [w \in Workers |-> Idle]
    /\ \E t \in TitleLens, s \in SummaryLens, l \in UrlLens :
          twitter = [NoTweet EXCEPT !.pc = "entered", !.title = t,
                                    !.summary = s, !.article_url = l]

AssembleTweet ==
    /\ twitter.pc = "entered"
    /\ twitter' = [twitter EXCEPT
                   !.pc = "assembled",
                   !.assembled = tweet_assemble(Str("title", twitter.title),
                                                Str("summary", twitter.summary),
                                                Str("url", twitter.article_url))]
    /\ UNCHANGED <<pubvars, uservars, subvars, artvars, now, request, response, fanout,
                   fanout_count, inflight>>

TruncateTweet ==
    /\ twitter.pc = "assembled"
    /\ twitter' = [twitter EXCEPT !.pc = "posted",
                              !.text = tweet_truncate(twitter.assembled)]
    /\ UNCHANGED <<pubvars, uservars, subvars, artvars, now, request, response, fanout,
                   fanout_count, inflight>>

NextTweet ==
    \/ AssembleTweet
    \/ TruncateTweet

SpecTweet == InitTweet /\ [][NextTweet]_vars

\* ------------------------------------------- approve requests in parallel
\* article_approve_view run by a worker in the steps at which another
\* worker's request can come in between: the view loads the row, binds the
\* form and reads the clock for approved_at, reads the clock again for
\* published_at, pre_save reads the stored row, the row is written,
\* post_save runs.  No step takes a lock and the write has no condition on
\* the stored is_approved.  The clock advances by Tick between the steps.

\* Lines 215-229: the checks, get_object_or_404, form.save(commit=False),
\* approved_by and the first reading of timezone.now().
approve_load(w, u, pk, posted) ==
    /\ inflight[w].pc = "idle"
    /\ has_perm(u, "news.change_article")
    /\ role[u] = "editor"
    /\ pk \in pks
    /\ ~ModelForm_raises([articles[pk] EXCEPT !.is_approved = posted])
    /\ LET form == [articles[pk] EXCEPT !.is_approved = posted]
           inst == IF form.is_approved
                   THEN [form EXCEPT !.approved_by = u, !.approved_at = now]
                   ELSE form
       IN inflight' = [inflight EXCEPT ![w] =
                          [Idle EXCEPT !.pc = IF form.is_approved
                                              THEN "stamping" ELSE "loaded",
                                       !.user = u, !.pk = pk, !.inst = inst]]
    /\ request' = Req("article_approve_view", u, pk, "POST", posted, None)
    /\ response' = NoResponse
    /\ fanout' = NoFanout
    /\ UNCHANGED <<pubvars, uservars, subvars, artvars, now, fanout_count,
                   twitter>>

\* Line 230: the second reading of timezone.now(), for published_at.
approve_published_at(w) ==
    /\ inflight[w].pc = "stamping"
    /\ inflight' = [inflight EXCEPT ![w] =
                       [@ EXCEPT !.pc = "loaded", !.inst.published_at = now]]
    /\ UNCHANGED <<pubvars, uservars, subvars, artvars, now, request, response,
                   fanout, fanout_count, twitter>>

\* article.save() up to the pre_save receiver: track_approval_status reads
\* the stored row.
approve_pre_save(w) ==
    /\ inflight[w].pc = "loaded"
    /\ LET r == inflight[w]
       IN inflight' = [inflight EXCEPT ![w] =
                          [r EXCEPT !.pc = "pre_saved",
                                    !.seen = articles[r.pk].is_approved,
                                    !.changed = track_approval_status(r.pk, r.inst)]]
    /\ UNCHANGED <<pubvars, uservars, subvars, artvars, now, request, response, fanout,
                   fanout_count, twitter>>

\* article.save(): the UPDATE of the row with the instance's fields.
approve_write(w) ==
    /\ inflight[w].pc = "pre_saved"
    /\ articles' = [articles EXCEPT ![inflight[w].pk] = inflight[w].inst]
    /\ inflight' = [inflight EXCEPT ![w] = [@ EXCEPT !.pc = "written"]]
    /\ UNCHANGED <<pubvars, uservars, subvars, pks, next_pk, now, request, response,
                   fanout, fanout_count, twitter>>

\* article.save(): the post_save receiver, then the view's response.
approve_post_save(w, env) ==
    /\ inflight[w].pc = "written"
    /\ LET r == inflight[w]
           res == article_approved_actions(r.inst, r.changed, env, now, now)
       IN /\ fanout_count[r.pk] + res.fan.calls <= MaxFanout
          /\ fanout' = res.fan
          /\ fanout_count' = [fanout_count EXCEPT ![r.pk] = @ + res.fan.calls]
          /\ response' = IF res.fan.raised THEN Resp(500, "", <<>>)
                         ELSE Resp(302, "editor_dashboard", <<>>)
          /\ request' = Req("article_approve_view", r.user, r.pk, "POST",
                            r.inst.is_approved, None)
    /\ inflight' = [inflight EXCEPT ![w] = [@ EXCEPT !.pc = "done"]]
    /\ UNCHANGED <<pubvars, uservars, subvars, artvars, now, twitter>>

\* The specification of two approve requests in parallel: a pending
\* article of the journalist is stored, reader 1 may follow the publisher,
\* and each worker runs one approve request of the editor.
RaceCreate ==
    /\ next_pk <= MaxFlowArticles
    /\ \E publisher \in Publishers \cup {None} :
          Article_objects_create(3, publisher, FALSE)

RaceTogglePublisher == \E pk \in Publishers : toggle_publisher_subscription(1, pk)

Load ==
    \E w \in Workers, pk \in FlowIds, posted \in BOOLEAN :
       approve_load(w, 4, pk, posted)

PublishedAt == \E w \in Workers : approve_published_at(w)

PreSave == \E w \in Workers : approve_pre_save(w)

Write == \E w \in Workers : approve_write(w)

PostSave ==
    \E w \in Workers :
       \E env \in IF inflight[w].changed THEN Envs ELSE {Quiet} :
          approve_post_save(w, env)

NextRace ==
    \/ Tick
    \/ RaceCreate
    \/ RaceTogglePublisher
    \/ Load
    \/ PublishedAt
    \/ PreSave
    \/ Write
    \/ PostSave

SpecRace == Init /\ [][NextRace]_vars

\* The specification of roles and ownership: roles change, readers
\* subscribe, journalists' articles are stored, and every user sends update
\* and delete requests.  User 2 keeps its role.
RoleChangers == Users \ {2}

\* The store starts with the first publisher of tests.py or with both.
InitRoles ==
    /\ \E publisher_rows \in {Publishers, 1 .. MaxPublishers} :
          FixturesWith(publisher_rows)
    /\ twitter = NoTweet
    /\ inflight = [w \in Workers |-> Idle]

\* The publishers a posted form names: the stored rows, a primary key that
\* may not be stored, or none.
PostedPublishers == (1 .. MaxPublishers) \cup {None}

RoleChange ==
    \E u \in RoleChangers, new_role \in ROLE_CHOICES : role_save(u, new_role)

RolesTogglePublisher ==
    \E pk \in Publishers : toggle_publisher_subscription(1, pk)

RolesToggleJournalist ==
    \E pk \in {3} : toggle_journalist_subscription(1, pk)

RolesObjectsCreate ==
    /\ next_pk <= MaxFlowArticles
    /\ \E author \in Journalists, publisher \in Publishers \cup {None} :
          Article_objects_create(author, publisher, FALSE)

RolesCreate ==
    /\ next_pk <= MaxFlowArticles
    /\ \E u \in Users, publisher \in PostedPublishers :
          article_create_view(u, "POST", publisher)

RolesUpdate ==
    \E u \in user_pks, pk \in FlowIds, publisher \in PostedPublishers :
       article_update_view(u, pk, "POST", publisher, Quiet)

RolesDelete ==
    \E u \in Users, pk \in FlowIds : article_delete_view(u, pk, "POST")

RolesPublisherCreate ==
    \E u \in Users, name \in PublisherNames \cup {None} :
       publisher_create_view(u, "POST", name)

NextRoles ==
    \/ RoleChange
    \/ RolesTogglePublisher
    \/ RolesToggleJournalist
    \/ RolesObjectsCreate
    \/ RolesCreate
    \/ RolesUpdate
    \/ RolesDelete
    \/ RolesPublisherCreate

SpecRoles == InitRoles /\ [][NextRoles]_vars

\* The specification of the users: users are created by registration, by
\* create_user and by a save with a preset primary key, and stored users
\* are saved with every role.
UsersRoleChange ==
    \E u \in user_pks, new_role \in ROLE_CHOICES : role_save(u, new_role)

UsersCreateUser ==
    \E new_role \in ROLE_CHOICES : create_user(new_role, TRUE)

\* CustomUser(pk=MaxUsers, role=...).save() while no row has the key.
UsersSaveWithPk ==
    /\ MaxUsers \notin user_pks
    /\ \E new_role \in ROLE_CHOICES :
          CustomUser_save_call(MaxUsers, new_role, TRUE)

UsersRegister ==
    \/ \E u \in {None, 1} : register_view(u, "GET", "reader", FALSE)
    \/ \E new_role \in ROLE_CHOICES, valid \in BOOLEAN :
          register_view(None, "POST", new_role, valid)

NextUsers ==
    \/ UsersRoleChange
    \/ UsersCreateUser
    \/ UsersSaveWithPk
    \/ UsersRegister

SpecUsers == Init /\ [][NextUsers]_vars

\* The specification of the audience of the fan-out: the users 1 and 4
\* change their roles and toggle their subscriptions, the journalist 3
\* loses and regains the role, articles of the journalist are stored
\* pending, and every user submits approvals.
AudienceUsers == {1, 4}

AudienceRoleChange ==
    \/ \E u \in AudienceUsers, new_role \in ROLE_CHOICES : role_save(u, new_role)
    \/ \E new_role \in {"journalist", "reader"} : role_save(3, new_role)

AudienceTogglePublisher ==
    \E u \in AudienceUsers, pk \in Publishers : toggle_publisher_subscription(u, pk)

AudienceToggleJournalist ==
    \E u \in AudienceUsers, pk \in {3} : toggle_journalist_subscription(u, pk)

AudienceObjectsCreate ==
    /\ next_pk <= MaxFlowArticles
    /\ \E author \in Journalists, publisher \in Publishers \cup {None} :
          Article_objects_create(author, publisher, FALSE)

AudienceApprove ==
    \E u \in Users, pk \in FlowIds, posted \in BOOLEAN :
       \E env \in EnvsOf(pk, posted) :
          article_approve_view(u, pk, "POST", posted, env, 0)

NextAudience ==
    \/ AudienceRoleChange
    \/ AudienceTogglePublisher
    \/ AudienceToggleJournalist
    \/ AudienceObjectsCreate
    \/ AudienceApprove

SpecAudience == Init /\ [][NextAudience]_vars

\* The specification of the admin site: a staff user adds, changes and
\* deletes articles, users and publishers.  The reader 1 is changed, the
\* journalist 3 and the added user are deleted.
AdminArticleAdd ==
    /\ next_pk <= MaxFlowArticles
    /\ \E author \in {1, 3}, publisher \in 1 .. MaxPublishers,
          is_approved \in BOOLEAN :
          \E published_at \in IF is_approved THEN {None, now} ELSE {None} :
             ArticleAdmin_add(author, publisher, is_approved, published_at)

\* The environments of a change in the admin site: no bearer token.
AdminEnvsOf(pk, is_approved) ==
    {env \in EnvsOf(pk, is_approved) : ~env.token}

AdminArticleChange ==
    \E pk \in FlowIds, publisher \in Publishers \cup {None},
       is_approved \in BOOLEAN :
       \E published_at \in {None, articles[pk].published_at},
          env \in AdminEnvsOf(pk, is_approved), d \in TicksOf(is_approved) :
          ArticleAdmin_change(pk, 3, publisher, is_approved, published_at,
                              env, d)

AdminArticleDelete == \E pk \in FlowIds : ArticleAdmin_delete(pk)

AdminUserAdd == CustomUserAdmin_add

AdminUserChange ==
    \E new_role \in {"reader", "editor"}, publishers \in SUBSET Publishers :
       \E new_groups \in {{}, {get_role_display(new_role)}} :
          CustomUserAdmin_change(1, new_role, TRUE, new_groups, publishers,
                                 {3}, {})

AdminUserDelete == \E u \in {3, MaxUsers} : CustomUserAdmin_delete(u)

AdminPublisherAdd == \E name \in {1, 3, None} : PublisherAdmin_add(name)

AdminPublisherChange == \E name \in {2, 3} : PublisherAdmin_change(1, name)

AdminPublisherDelete ==
    \E pk \in 1 .. MaxPublishers : PublisherAdmin_delete(pk)

NextAdmin ==
    \/ AdminArticleAdd
    \/ AdminArticleChange
    \/ AdminArticleDelete
    \/ AdminUserAdd
    \/ AdminUserChange
    \/ AdminUserDelete
    \/ AdminPublisherAdd
    \/ AdminPublisherChange
    \/ AdminPublisherDelete

SpecAdmin == Init /\ [][NextAdmin]_vars

\* The specification of the REST API: rows are stored, the reader 1
\* subscribes, and requests with and without credentials reach every
\* endpoint.
ApiObjectsCreate ==
    /\ next_pk <= MaxFlowArticles
    /\ \E publisher \in Publishers \cup {None}, is_approved \in BOOLEAN :
          Article_objects_create(3, publisher, is_approved)

ApiTogglePublisher == \E pk \in Publishers : toggle_publisher_subscription(1, pk)

ApiToggleJournalist == \E pk \in {3} : toggle_journalist_subscription(1, pk)

ApiRequest ==
    \E endpoint \in Endpoints, u \in Users \cup {None} :
       \/ \E param \in {1, 3, None} : dispatch(endpoint, u, "GET", param)
       \/ \E method \in {"HEAD", "OPTIONS", "POST"} :
             dispatch(endpoint, u, method, 1)

NextApi ==
    \/ ApiObjectsCreate
    \/ ApiTogglePublisher
    \/ ApiToggleJournalist
    \/ ApiRequest

SpecApi == Init /\ [][NextApi]_vars

TypeOK ==
    /\ user_pks \subseteq 1 .. MaxUsers
    /\ publisher_pks \subseteq 1 .. MaxPublishers
    /\ \A p \in publisher_pks : publisher_name[p] \in PublisherNames
    /\ \A u \in user_pks :
          /\ role[u] \in ROLE_CHOICES
          /\ groups[u] \subseteq GroupNames
          /\ subscribed_publishers[u] \subseteq publisher_pks
          /\ affiliated_publishers[u] \subseteq publisher_pks
          /\ subscribed_journalists[u] \subseteq user_pks
    /\ \A a \in pks :
          /\ articles[a].author \in user_pks
          /\ articles[a].publisher \in publisher_pks \cup {None}
          /\ articles[a].approved_by \in user_pks \cup {None}
    /\ pks \subseteq ArticleIds
    /\ next_pk \in 1 .. MaxArticles + 1
    /\ now \in Times
    /\ \A a \in ArticleIds : fanout_count[a] \in 0 .. MaxFanout

\* ------------------------------------------------------------------ claims
\* How often the row a occurs in a listed sequence.
Occurrences(data, a) == Cardinality({i \in DOMAIN data : data[i] = a})

\* u follows the publisher or the author of the row a.
Follows(u, a) ==
    \/ articles[a].publisher \in subscribed_publishers[u]
    \/ articles[a].author \in subscribed_journalists[u]

\* C1: in every reachable state, for every user and every approved article
\* whose publisher or author the user is subscribed to, the article occurs
\* exactly once in every sequence the article list may return for that user,
\* also when the user follows both the publisher and the author.
C1_ListedExactlyOnce ==
    \A u \in Users : \A a \in pks :
       (articles[a].is_approved /\ Follows(u, a))
          => \A data \in get_queryset(u) : Occurrences(data, a) = 1

\* C1 witness: the list was answered to a user who follows both the publisher
\* and the author of an approved article, and the article is in the answer.
C1_Witness ==
    \E u \in Users : \E a \in pks :
       /\ articles[a].is_approved
       /\ articles[a].publisher \in subscribed_publishers[u]
       /\ articles[a].author \in subscribed_journalists[u]
       /\ request = Req("ArticleViewSet.list", u, None, "GET", FALSE, None)
       /\ response.status = 200
       /\ Occurrences(response.data, a) = 1

\* C2: every article the list returns exists, is approved and has its
\* publisher or its author among the user's subscriptions, and a user whose
\* two subscription sets are empty gets the empty list with status 200.
C2_OnlyApprovedAndFollowed ==
    \A u \in Users :
       /\ \A data \in get_queryset(u) : \A i \in DOMAIN data :
             /\ data[i] \in pks
             /\ articles[data[i]].is_approved
             /\ Follows(u, data[i])
       /\ (subscribed_publishers[u] = {} /\ subscribed_journalists[u] = {})
             => list(u) = {Resp(200, "", <<>>)}

\* C2 witness: a user follows the publisher of a pending article and of an
\* approved one, and the list answered with the approved one alone.
C2_Witness ==
    \E u \in Users : \E a, b \in pks :
       /\ ~articles[a].is_approved /\ Follows(u, a)
       /\ articles[b].is_approved /\ Follows(u, b)
       /\ request = Req("ArticleViewSet.list", u, None, "GET", FALSE, None)
       /\ response = Resp(200, "", <<b>>)
       /\ \E v \in Users : subscribed_publishers[v] = {}
                           /\ subscribed_journalists[v] = {}
                           /\ role[v] = "reader"

\* C3: by_publisher and by_journalist answer a user who is not subscribed to
\* the named publisher or journalist with status 403 and no list; a
\* subscribed user gets status 200 and exactly the approved articles of that
\* publisher or journalist, each once.
C3_FilterNeedsSubscription ==
    \A u \in Users :
       /\ \A p \in Publishers \cup {2} :
             IF p \notin subscribed_publishers[u]
             THEN by_publisher(u, p) = {Resp(403, "", <<>>)}
             ELSE \A r \in by_publisher(u, p) :
                     /\ r.status = 200
                     /\ Range(r.data) = {a \in pks : articles[a].is_approved
                                                    /\ articles[a].publisher = p}
                     /\ Len(r.data) = Cardinality(Range(r.data))
       /\ \A j \in Users :
             IF j \notin subscribed_journalists[u]
             THEN by_journalist(u, j) = {Resp(403, "", <<>>)}
             ELSE \A r \in by_journalist(u, j) :
                     /\ r.status = 200
                     /\ Range(r.data) = {a \in pks : articles[a].is_approved
                                                    /\ articles[a].author = j}
                     /\ Len(r.data) = Cardinality(Range(r.data))

\* C3 witness: the last answer is the 403 of a filter by a publisher that has
\* an approved article and that the user does not follow, while the same user
\* follows a journalist whose filter lists an approved article and leaves out
\* a pending one.
C3_Witness ==
    \E u \in Users : \E a, b \in pks :
       /\ articles[a].is_approved /\ ~articles[b].is_approved
       /\ articles[a].publisher \in Publishers
       /\ articles[a].publisher \notin subscribed_publishers[u]
       /\ request = Req("ArticleViewSet.by_publisher", u, articles[a].publisher,
                         "GET", FALSE, None)
       /\ response = Resp(403, "", <<>>)
       /\ articles[a].author \in subscribed_journalists[u]
       /\ articles[b].author = articles[a].author
       /\ Resp(200, "", <<a>>) \in by_journalist(u, articles[a].author)

\* published_at x is at least as new as published_at y; a missing
\* published_at is not comparable.
AtLeastAsNew(x, y) == x # None /\ y # None /\ x >= y

\* C4: in every sequence the article list may return, an article at an
\* earlier position has a published_at greater than or equal to that of every
\* article at a later position.
C4_NewestFirst ==
    \A u \in Users : \A data \in get_queryset(u) :
       \A i, j \in DOMAIN data :
          i < j => AtLeastAsNew(articles[data[i]].published_at,
                                articles[data[j]].published_at)

\* The step is the submission (POST) of the approval form with the value
\* posted for an existing row by a user with the editor role.
EditorSubmits(posted) ==
    /\ request'.view = "article_approve_view"
    /\ request'.method = "POST"
    /\ request'.posted = posted
    /\ role[request'.user] = "editor"
    /\ request'.pk \in pks

\* C5: when an editor submits the approval of a pending article, the stored
\* row is approved, approved_by is that editor, approved_at and published_at
\* are readings of the clock taken during the request, the post_save handler
\* runs its fan-out once, and the mail channel and the social channel are
\* each attempted at most once.
C5_ApproveStampsAndFansOutOnce ==
    [][(EditorSubmits(TRUE) /\ ~articles[request'.pk].is_approved)
          => LET pk == request'.pk
             IN /\ pk \in pks'
                /\ articles'[pk].is_approved
                /\ articles'[pk].approved_by = request'.user
                /\ articles'[pk].approved_at \in now .. now'
                /\ articles'[pk].published_at \in now .. now'
                /\ fanout'.calls = 1
                /\ fanout_count' = [fanout_count EXCEPT ![pk] = @ + 1]
                /\ fanout'.mail_attempts <= 1
                /\ fanout'.tweet_attempts <= 1]_vars

\* C6: the fan-out runs only in a save of an article whose stored
\* is_approved was false and whose saved is_approved is true, and once in
\* such a save (the row is approved afterwards, unless the transaction of
\* the admin change view was rolled back by an exception of the fan-out);
\* submitting the approval of an article that is already approved runs no
\* fan-out, so two consecutive approvals give one fan-out.
C6_FanoutOnlyOnEdge ==
    [][/\ \A pk \in ArticleIds :
             fanout_count'[pk] # fanout_count[pk]
                => /\ pk \in pks /\ pk \in pks'
                   /\ ~articles[pk].is_approved
                   /\ request'.pk = pk /\ request'.posted = TRUE
                   /\ \/ articles'[pk].is_approved
                      \/ request'.view = "ArticleAdmin" /\ fanout'.raised
                   /\ fanout_count'[pk] = fanout_count[pk] + 1
                   /\ fanout'.calls = 1
       /\ fanout'.calls = 1
             => \E pk \in ArticleIds : fanout_count'[pk] # fanout_count[pk]
       /\ (EditorSubmits(TRUE) /\ articles[request'.pk].is_approved)
             => /\ fanout'.calls = 0
                /\ fanout_count' = fanout_count
                /\ articles'[request'.pk].is_approved]_vars

\* C6 witness: the approval of an approved article was submitted again and
\* stored, and the article has had one fan-out.
C6_Witness ==
    \E pk \in pks :
       /\ request = Req("article_approve_view", 4, pk, "POST", TRUE, None)
       /\ articles[pk].is_approved
       /\ response = Resp(302, "editor_dashboard", <<>>)
       /\ fanout.calls = 0
       /\ fanout_count[pk] = 1

\* C7: a submission of the approval for an article that an editor has
\* already approved leaves its approved_at, its published_at and its
\* approved_by as the first approval set them.
C7_StampsSetOnce ==
    [][(/\ EditorSubmits(TRUE)
        /\ articles[request'.pk].is_approved
        /\ articles[request'.pk].approved_by # None)
          => LET pk == request'.pk
             IN /\ articles'[pk].approved_at = articles[pk].approved_at
                /\ articles'[pk].published_at = articles[pk].published_at
                /\ articles'[pk].approved_by = articles[pk].approved_by]_vars

\* The views of the application that C8 names.
WorkflowViews ==
    {"article_approve_view", "article_update_view",
     "toggle_publisher_subscription", "toggle_journalist_subscription"}

\* C8: once an editor has approved an article, no approval form
\* submission, article update or subscription toggle makes its stored
\* is_approved false while the article exists.
C8_ApprovedIsTerminal ==
    [][\A pk \in pks :
          (articles[pk].is_approved /\ articles[pk].approved_by # None
           /\ pk \in pks'
           /\ request'.view \in WorkflowViews)
             => articles'[pk].is_approved]_vars

\* The store, unchanged by a step.
StoreUnchanged ==
    UNCHANGED <<pubvars, uservars, subvars, artvars, fanout_count>>

\* The step is an approve request (GET or POST) of a user who is not an
\* editor.
NonEditorRequests ==
    /\ request'.view = "article_approve_view"
    /\ role[request'.user] # "editor"

\* C9 as claimed: every approve request of a user who is not an editor
\* changes nothing, runs no fan-out and is answered with status 403.
C9_NonEditorsGet403 ==
    [][NonEditorRequests
          => /\ StoreUnchanged
             /\ fanout' = NoFanout
             /\ response'.status = 403]_vars

\* The readers subscribed to the publisher or to the author of the row the
\* step saves under pk.
Audience(pk) ==
    {u \in Users :
        /\ role[u] = "reader"
        /\ \/ /\ articles'[pk].publisher # None
              /\ articles'[pk].publisher \in subscribed_publishers[u]
           \/ articles'[pk].author \in subscribed_journalists[u]}

ApprovalEdge == EditorSubmits(TRUE) /\ ~articles[request'.pk].is_approved

\* C11: an editor's approval of a pending article is answered without an
\* exception (the redirect to the editor dashboard) and leaves the article
\* stored as approved with its stamps, whatever happens in the fan-out.
C11_FanoutFailureNeverSurfaces ==
    [][ApprovalEdge
          => /\ response' = Resp(302, "editor_dashboard", <<>>)
             /\ ~fanout'.raised
             /\ articles'[request'.pk].is_approved
             /\ articles'[request'.pk].approved_by = request'.user
             /\ articles'[request'.pk].approved_at # None
             /\ articles'[request'.pk].published_at # None]_vars

\* C12: on every approval edge with the bearer token configured the handler
\* reaches the social channel, whatever the email channel did (a
\* consequence of the claim, which says that the post is attempted).
C12_SocialChannelAlwaysReached ==
    [][(fanout'.calls = 1 /\ fanout'.bearer_token)
          => fanout'.tweet_result # "none"]_vars

\* C13: on every approval edge without a bearer token the request is
\* answered with the redirect and no exception, the article is stored as
\* approved, the email fan-out builds a message for every subscriber with
\* an email address, and no request is made to the social platform.
C13_NoCredentialStillNotifies ==
    [][(ApprovalEdge /\ ~fanout'.bearer_token)
          => /\ response' = Resp(302, "editor_dashboard", <<>>)
             /\ ~fanout'.raised
             /\ articles'[request'.pk].is_approved
             /\ fanout'.calls = 1
             /\ \A u \in Audience(request'.pk) :
                   email[u] => fanout'.emails[u] = 1
             /\ fanout'.tweet_attempts = 0
             /\ fanout'.tweet_result = "skipped"]_vars

\* C14 as claimed: the posted text has at most TweetLimit characters and
\* starts with the whole title line.
C14_StartsWithTitleLine ==
    twitter.pc = "posted"
       => /\ Len(twitter.text) <= TweetLimit
          /\ Len(twitter.text) >= HeaderLen + twitter.title
          /\ SubSeq(twitter.text, 1, HeaderLen + twitter.title)
                = title_line(Str("title", twitter.title))

\* C14 as amended: the posted text has at most TweetLimit characters; when
\* the assembled text is longer it is the first 277 characters of the
\* assembled text followed by the three-character ellipsis, else the
\* assembled text itself; it starts with the title line, or, when the title
\* line has more than 277 characters, with the first 277 characters of it.
C14_TextWithinLimit ==
    twitter.pc = "posted"
       => LET line == title_line(Str("title", twitter.title))
              kept == TweetLimit - EllipsisLen
              shown == IF Len(line) <= kept THEN Len(line) ELSE kept
          IN /\ Len(twitter.text) <= TweetLimit
             /\ Len(twitter.assembled) <= TweetLimit
                   => twitter.text = twitter.assembled
             /\ Len(twitter.assembled) > TweetLimit
                   => /\ Len(twitter.text) = TweetLimit
                      /\ SubSeq(twitter.text, 1, kept)
                            = SubSeq(twitter.assembled, 1, kept)
                      /\ SubSeq(twitter.text, kept + 1, TweetLimit) = Ellipsis
             /\ SubSeq(twitter.text, 1, shown) = SubSeq(line, 1, shown)

\* C14 witness: a title that leaves a negative budget for the summary, a
\* summary, and a text that was cut to the limit and still starts with the
\* whole title line.
C14_Witness ==
    /\ twitter.pc = "posted"
    /\ TweetLimit - (HeaderLen + twitter.title + 2) - UrlReserve < 0
    /\ twitter.summary > 0
    /\ Len(twitter.assembled) > TweetLimit
    /\ Len(twitter.text) = TweetLimit
    /\ SubSeq(twitter.text, 1, HeaderLen + twitter.title)
          = title_line(Str("title", twitter.title))

\* The two workers have run an approval (is_approved = true) of the article
\* pk to its end, and the pre_save read of each saw the article pending.
BothSawPending(pk) ==
    \A w \in Workers :
       /\ inflight[w].pc = "done"
       /\ inflight[w].pk = pk
       /\ inflight[w].inst.is_approved
       /\ ~inflight[w].seen

\* C15: when two approve requests for the same article have both read the
\* stored is_approved as false in pre_save (both reads came before either
\* write), both have detected the edge and the fan-out has run twice for
\* the article; an approval whose read saw the article approved has
\* detected none.
C15_ConcurrentApprovalsBothFanOut ==
    /\ \A pk \in pks :
          BothSawPending(pk)
             => /\ \A w \in Workers : inflight[w].changed
                /\ fanout_count[pk] = 2
                /\ articles[pk].is_approved
    /\ \A w \in Workers :
          (inflight[w].pc \in {"pre_saved", "written", "done"}
           /\ inflight[w].seen)
             => ~inflight[w].changed

\* C15 witness: both workers approved article 1, both found the edge, and
\* the fan-out ran twice for it, each time with a message to reader 1.
C15_Witness ==
    /\ BothSawPending(1)
    /\ fanout_count[1] = 2
    /\ fanout.calls = 1
    /\ fanout.emails[1] = 1

\* The step is an update or delete request (POST) of the user u for the
\* stored article pk.
Edits(u, pk) ==
    /\ request'.view \in {"article_update_view", "article_delete_view"}
    /\ request'.method = "POST"
    /\ request'.user = u
    /\ request'.pk = pk
    /\ pk \in pks

\* The request of the step is a delete, or an update whose form data is
\* valid for the user u.
ValidEdit(u) ==
    \/ request'.view = "article_delete_view"
    \/ ArticleForm_is_valid(u, request'.publisher)

\* The update or delete of the step was carried out on the article pk.
Carried(pk) ==
    IF request'.view = "article_delete_view"
    THEN pk \notin pks' /\ response' = Resp(302, "article_list", <<>>)
    ELSE /\ pk \in pks'
         /\ articles'[pk] = [articles[pk] EXCEPT !.publisher = request'.publisher]
         /\ response' = Resp(302, "article_detail", <<>>)

\* C16: a journalist's update or delete request for an article of another
\* author leaves the article as it is; an editor's valid request is carried
\* out on any article; a reader's request changes nothing.
C16_OwnershipOfEdits ==
    [][\A u \in Users : \A pk \in ArticleIds :
          Edits(u, pk)
             => /\ (role[u] = "journalist" /\ articles[pk].author # u)
                      => /\ pks' = pks /\ articles' = articles
                         /\ response' = Resp(302, "article_detail", <<>>)
                /\ (role[u] = "editor" /\ ValidEdit(u)) => Carried(pk)
                /\ role[u] = "reader"
                      => /\ pks' = pks /\ articles' = articles
                         /\ response' = Resp(403, "", <<>>)]_vars

\* The step is a create request (POST) through article_create_view.
CreateRequest ==
    /\ request'.view = "article_create_view"
    /\ request'.method = "POST"

\* C17: a journalist's valid create request stores one new article with the
\* requester as author, not approved and without stamps, and no fan-out
\* runs; a create request of any other user stores nothing.
C17_CreateStoresPendingArticle ==
    [][CreateRequest
          => IF role[request'.user] = "journalist"
             THEN ArticleForm_is_valid(request'.user, request'.publisher)
                     => /\ pks' = pks \cup {next_pk}
                        /\ articles'[next_pk] =
                              NewArticle(request'.user, request'.publisher, FALSE)
                        /\ fanout'.calls = 0
                        /\ response' = Resp(302, "journalist_dashboard", <<>>)
             ELSE StoreUnchanged]_vars

\* C18: saving a user with a changed role leaves the three relationship
\* sets of the user (and of everybody else) as they were, whatever the old
\* and the new role are.
C18_RoleChangeKeepsRelationshipSets ==
    [][request'.view = "CustomUser.save"
          => /\ subscribed_publishers' = subscribed_publishers
             /\ subscribed_journalists' = subscribed_journalists
             /\ affiliated_publishers' = affiliated_publishers]_vars

\* A reader with subscriptions has been given another role and a journalist
\* with an affiliation has been given another role; the sets are still
\* filled.
C18_Witness ==
    /\ request.view = "CustomUser.save"
    /\ role[1] # "reader"
    /\ subscribed_publishers[1] # {}
    /\ subscribed_journalists[1] # {}
    /\ role[3] # "journalist"
    /\ affiliated_publishers[3] # {}

\* The step is a request (POST) through publisher_create_view.
PublisherRequest ==
    /\ request'.view = "publisher_create_view"
    /\ request'.method = "POST"

\* C19: an editor in the Editor group who submits a valid publisher form
\* gets the publisher stored, and a request of a reader or a journalist
\* stores nothing.
C19_EditorsCreatePublishers ==
    [][PublisherRequest
          => /\ (/\ role[request'.user] = "editor"
                 /\ groups[request'.user] = {"Editor"}
                 /\ PublisherForm_is_valid(request'.publisher))
                   => /\ \E p \in publisher_pks' \ publisher_pks :
                            /\ publisher_pks' = publisher_pks \cup {p}
                            /\ publisher_name'[p] = request'.publisher
                      /\ response' = Resp(302, "publisher_detail", <<>>)
             /\ role[request'.user] # "editor"
                   => UNCHANGED pubvars]_vars

\* The step is a create or update request (POST) of a journalist through
\* ArticleForm.
JournalistSubmits ==
    /\ request'.view \in {"article_create_view", "article_update_view"}
    /\ request'.method = "POST"
    /\ role[request'.user] = "journalist"

\* The publishers the journalist u may name: none, or one u is affiliated to.
Attributable(u) == affiliated_publishers[u] \cup {None}

\* C20: an article a journalist stores through ArticleForm carries no
\* publisher or a publisher the journalist is affiliated to at the time of
\* the save, and a submission that names another publisher stores nothing.
C20_JournalistAttributesOwnPublishers ==
    [][JournalistSubmits
          => /\ \A a \in pks' :
                   (a \notin pks \/ articles'[a] # articles[a])
                      => /\ articles'[a].author = request'.user
                         /\ articles'[a].publisher = request'.publisher
                         /\ articles'[a].publisher \in Attributable(request'.user)
             /\ request'.publisher \notin Attributable(request'.user)
                   => StoreUnchanged]_vars

\* A journalist has stored an update that names the publisher the journalist
\* is affiliated to.
C20_Witness ==
    /\ request.view = "article_update_view"
    /\ role[request.user] = "journalist"
    /\ request.publisher # None
    /\ response = Resp(302, "article_detail", <<>>)
    /\ request.pk \in pks
    /\ articles[request.pk].author = request.user
    /\ articles[request.pk].publisher = request.publisher

\* C23: over the lifetime of an article, whatever requests are made for it
\* one after the other, the fan-out runs at most once.
C23_AtMostOneFanoutPerArticle ==
    \A a \in ArticleIds : fanout_count[a] <= 1

\* C24: an update request never changes the approval state of its article:
\* is_approved, approved_by, approved_at and published_at stay as stored
\* and no fan-out runs.
C24_UpdateKeepsApprovalState ==
    [][(request'.view = "article_update_view" /\ request'.pk \in pks)
          => LET pk == request'.pk
             IN /\ pk \in pks'
                /\ articles'[pk].is_approved = articles[pk].is_approved
                /\ articles'[pk].approved_by = articles[pk].approved_by
                /\ articles'[pk].approved_at = articles[pk].approved_at
                /\ articles'[pk].published_at = articles[pk].published_at
                /\ fanout'.calls = 0
                /\ fanout_count' = fanout_count]_vars

\* An approved, stamped article has been updated with another publisher by
\* a successful request.
C24_Witness ==
    /\ request.view = "article_update_view"
    /\ request.pk \in pks
    /\ response = Resp(302, "article_detail", <<>>)
    /\ request.publisher # None
    /\ articles[request.pk].publisher = request.publisher
    /\ articles[request.pk].is_approved
    /\ articles[request.pk].approved_at # None
    /\ fanout_count[request.pk] = 1

\* C27: every stored article that is approved has its approved_at and its
\* published_at set.
C27_ApprovedIsStamped ==
    \A a \in pks :
       articles[a].is_approved
          => articles[a].approved_at # None /\ articles[a].published_at # None

\* C25: after any creations and role changes of users through
\* CustomUser.save every user is in exactly one group, the one named after
\* the user's role, and a save that does not change the role leaves the
\* groups of the user as they were.
C25_OneGroupNamedAfterRole ==
    /\ [](\A u \in user_pks : groups[u] = {get_role_display(role[u])})
    /\ [][(request'.view = "CustomUser.save" /\ role' = role)
             => groups' = groups]_vars

\* The step is a subscription toggle.
ToggleRequest ==
    request'.view \in {"toggle_publisher_subscription",
                       "toggle_journalist_subscription"}

\* The toggle of the step is one the views carry out: the user is a reader
\* and the target is a publisher, or a user with the journalist role.
ToggleApplies ==
    /\ role[request'.user] = "reader"
    /\ IF request'.view = "toggle_publisher_subscription"
       THEN request'.pk \in publisher_pks
       ELSE request'.pk \in user_pks /\ role[request'.pk] = "journalist"

\* The set S with the membership of x flipped.
Flipped(S, x) == IF x \in S THEN S \ {x} ELSE S \cup {x}

\* C22: a toggle of a reader flips the membership of the named target in
\* the reader's set of that kind and changes nothing else, so a second
\* toggle of the same target restores the set; a toggle of a non-reader, or
\* for a target that is no journalist, changes nothing; after an unsubscribe
\* from a publisher the reader's list holds none of that publisher's
\* articles except those of an author the reader is subscribed to.
C22_ToggleFlipsOneMembership ==
    [][ToggleRequest
          => LET u == request'.user
                 pk == request'.pk
                 pub == request'.view = "toggle_publisher_subscription"
             IN /\ UNCHANGED <<pubvars, role, email, groups,
                               affiliated_publishers, pks, next_pk, articles,
                               fanout_count>>
                /\ ~ToggleApplies => UNCHANGED subvars
                /\ (ToggleApplies /\ pub)
                      => /\ subscribed_publishers' =
                               [subscribed_publishers EXCEPT
                                   ![u] = Flipped(@, pk)]
                         /\ subscribed_journalists' = subscribed_journalists
                /\ (ToggleApplies /\ ~pub)
                      => /\ subscribed_journalists' =
                               [subscribed_journalists EXCEPT
                                   ![u] = Flipped(@, pk)]
                         /\ subscribed_publishers' = subscribed_publishers
                /\ (ToggleApplies /\ pub /\ pk \in subscribed_publishers[u])
                      => \A r \in Users :
                            r = u
                               => \A a \in Range(get_queryset_rows(r)') :
                                     articles'[a].publisher = pk
                                        => articles'[a].author
                                              \in subscribed_journalists'[r]]_vars

\* The reader 1 has unsubscribed from publisher 1, which has an approved
\* article whose author the reader is not subscribed to: the article is not
\* in the reader's list.
C22_Witness ==
    /\ request.view = "toggle_publisher_subscription"
    /\ request.user = 1
    /\ request.pk = 1
    /\ response = Resp(302, "publisher_detail", <<>>)
    /\ 1 \notin subscribed_publishers[1]
    /\ \E a \in pks :
          /\ articles[a].is_approved
          /\ articles[a].publisher = 1
          /\ articles[a].author \notin subscribed_journalists[1]
          /\ a \notin Range(get_queryset_rows(1))

\* C26: on every approval edge the users a message is addressed to have the
\* role reader, and the approved article is in the list each of them gets
\* from the article list endpoint.
C26_OnlyReadersAreMailed ==
    [][fanout'.calls = 1
          => \A u \in Users :
                fanout'.emails[u] > 0
                   => /\ role'[u] = "reader"
                      /\ \E a \in Range(get_queryset_rows(u)') :
                            a = request'.pk]_vars

\* An approval has addressed a message to the reader 1 and none to the
\* editor 4, who still holds a subscription to the article's publisher from
\* the time of being a reader.
C26_Witness ==
    /\ request.view = "article_approve_view"
    /\ fanout.calls = 1
    /\ fanout.emails[1] = 1
    /\ role[1] = "reader"
    /\ role[4] = "editor"
    /\ request.pk \in pks
    /\ articles[request.pk].publisher # None
    /\ articles[request.pk].publisher \in subscribed_publishers[4]
    /\ fanout.emails[4] = 0

\* The routes that answer with rows: all but the API root, which lists
\* URLs.
EntityEndpoints == Endpoints \ {"APIRootView"}

\* C21: a request without credentials to any route of the articles, the
\* publishers or the journalists (list, detail or extra action), with any
\* method, is answered 401 or 403; no request without credentials is
\* answered with data, and no request to any route of the REST API changes
\* a stored row.
C21_ApiNeedsAuthenticationAndOnlyReads ==
    [][request'.view \in Endpoints
          => /\ StoreUnchanged
             /\ request'.user = None => response'.data = <<>>
             /\ (request'.user = None /\ request'.view \in EntityEndpoints)
                   => response'.status \in {401, 403}]_vars

\* A request without credentials for the list of publishers has been
\* refused while publishers, journalists and approved articles are stored.
C21_Witness ==
    /\ request.view = "PublisherViewSet.list"
    /\ request.user = None
    /\ request.method = "GET"
    /\ response.status = 403
    /\ publisher_pks # {}
    /\ \E a \in pks : articles[a].is_approved

====
